---- MODULE Spec2Model ----
(***************************************************************************)
(* Transcript coverage validation (src/validation_utils.py) and the        *)
(* subtitle source feeding it (src/srt_processor.py).                      *)
(*                                                                         *)
(* Strings that the code inspects character by character (timestamps) are  *)
(* sequences of one-character strings.  Texts are sequences of words: the  *)
(* code only ever looks at a text through normalize_text(...).split().     *)
(* Times are integers in milliseconds, so that `int(field) / 1000.0`       *)
(* seconds is the integer int(field).  Percentages and ratios, floats in   *)
(* the code, are exact fractions [num, den] in lowest terms with den > 0.  *)
(***************************************************************************)
EXTENDS Integers, Naturals, Sequences, FiniteSets, TLC

VARIABLES
    original_subtitles,   \* argument of the last validate_chunk_coverage call
    processed_chunks,     \* argument of the last validate_chunk_coverage call
    result,               \* how that call ended: report returned or exception
    timestamp,            \* argument of the last parse_timestamp call
    ts_origin,            \* how the caller built that argument
    total_seconds,        \* how that call ended: value (in ms) or exception
    pc,                   \* where each request stands in validate_chunk_coverage
    call_args,            \* the lists each request passed to its call in progress
    frames,               \* the local variables of the calls in progress
    earlier,              \* a call that returned before: its lists, its outcome
    upload                \* the /upload-transcript request being served

vars == <<original_subtitles, processed_chunks, result,
          timestamp, ts_origin, total_seconds, pc, call_args, frames, earlier,
          upload>>

(***************************************************************************)
(* Bounds                                                                  *)
(***************************************************************************)
MaxCues == 2
MaxChunks == 2
MaxFracDigits == 6
MaxRawLen == 3

(***************************************************************************)
(* Character-level helpers (Python str methods)                            *)
(***************************************************************************)
Digits == <<"0", "1", "2", "3", "4", "5", "6", "7", "8", "9">>

IsDigit(c) == \E d \in 1..10 : Digits[d] = c

DigitVal(c) == (CHOOSE d \in 1..10 : Digits[d] = c) - 1

\* plausible slip: the result of str.replace dropped, the string left as it was
StrReplaceDropped(s, old, new) == s

\* str.replace(old, new) for one-character old and new
StrReplace(s, old, new) == [i \in 1..Len(s) |-> IF s[i] = old THEN new ELSE s[i]]

\* str.count(c)
StrCount(s, c) == Cardinality({i \in 1..Len(s) : s[i] = c})

\* str.split(sep): the fields between the separators, empty fields included
RECURSIVE StrSplit(_, _)
StrSplit(s, sep) ==
    IF \A i \in 1..Len(s) : s[i] # sep
    THEN <<s>>
    ELSE LET p == CHOOSE i \in 1..Len(s) :
                      s[i] = sep /\ \A j \in 1..(i - 1) : s[j] # sep
         IN  <<SubSeq(s, 1, p - 1)>> \o StrSplit(SubSeq(s, p + 1, Len(s)), sep)

\* int(field) succeeds on a non-empty run of decimal digits
IntOk(field) == Len(field) > 0 /\ \A i \in 1..Len(field) : IsDigit(field[i])

RECURSIVE IntOf(_)
IntOf(field) ==
    IF Len(field) = 0 THEN 0
    ELSE 10 * IntOf(SubSeq(field, 1, Len(field) - 1)) + DigitVal(field[Len(field)])

RECURSIVE Pow10(_)
Pow10(n) == IF n = 0 THEN 1 ELSE 10 * Pow10(n - 1)

\* float(s) succeeds on digits with at most one '.', at least one digit
FloatOk(s) ==
    LET fs == StrSplit(s, ".")
    IN  /\ Len(fs) <= 2
        /\ \A k \in 1..Len(fs) : \A i \in 1..Len(fs[k]) : IsDigit(fs[k][i])
        /\ \E k \in 1..Len(fs) : Len(fs[k]) > 0

\* float(s) in milliseconds (exact for up to three fractional digits)
FloatMs(s) ==
    LET fs == StrSplit(s, ".")
        frac == IF Len(fs) > 1 THEN fs[2] ELSE <<>>
    IN  IntOf(fs[1]) * 1000 +
        (IF Len(frac) <= 3 THEN IntOf(frac) * Pow10(3 - Len(frac))
                           ELSE IntOf(frac) \div Pow10(Len(frac) - 3))

(***************************************************************************)
(* parse_timestamp                                                         *)
(***************************************************************************)
Value(ms) == [ok |-> TRUE, ms |-> ms, exc |-> "none"]

Raised(exc) == [ok |-> FALSE, ms |-> 0, exc |-> exc]

\* the H:MM:SS.mmm branch
ParseHoursForm(ts) ==
    LET parts == StrSplit(ts, ":")
        seconds_parts == StrSplit(parts[3], ".")
    IN  IF /\ IntOk(parts[1])
           /\ IntOk(parts[2])
           /\ IntOk(seconds_parts[1])
           /\ (Len(seconds_parts) > 1 => IntOk(seconds_parts[2]))
        THEN LET hours == IntOf(parts[1])
                 minutes == IntOf(parts[2])
                 seconds == IntOf(seconds_parts[1])
                 microseconds == IF Len(seconds_parts) > 1
                                 THEN IntOf(seconds_parts[2]) ELSE 0
             IN  Value(hours * 3600000 + minutes * 60000 + seconds * 1000
                       + microseconds)
        ELSE Raised("ValueError")

\* plausible slip: the hours factor copied into the minutes branch
ParseMinutesFormHourFactor(ts) ==
    LET parts == StrSplit(ts, ":")
        seconds_parts == StrSplit(parts[2], ".")
    IN  IF /\ IntOk(parts[1])
           /\ IntOk(seconds_parts[1])
           /\ (Len(seconds_parts) > 1 => IntOk(seconds_parts[2]))
        THEN Value(IntOf(parts[1]) * 3600000 + IntOf(seconds_parts[1]) * 1000
                   + (IF Len(seconds_parts) > 1 THEN IntOf(seconds_parts[2]) ELSE 0))
        ELSE Raised("ValueError")

\* the M:SS.mmm branch
ParseMinutesForm(ts) ==
    LET parts == StrSplit(ts, ":")
        seconds_parts == StrSplit(parts[2], ".")
    IN  IF /\ IntOk(parts[1])
           /\ IntOk(seconds_parts[1])
           /\ (Len(seconds_parts) > 1 => IntOk(seconds_parts[2]))
        THEN LET minutes == IntOf(parts[1])
                 seconds == IntOf(seconds_parts[1])
                 microseconds == IF Len(seconds_parts) > 1
                                 THEN IntOf(seconds_parts[2]) ELSE 0
             IN  Value(minutes * 60000 + seconds * 1000 + microseconds)
        ELSE Raised("ValueError")

\* the fallback branch: float(timestamp)
ParseBareForm(ts) ==
    IF FloatOk(ts) THEN Value(FloatMs(ts)) ELSE Raised("ValueError")

parse_timestamp(t) ==
    LET ts == StrReplace(t, ",", ".")
    IN  IF StrCount(ts, ":") = 2 THEN ParseHoursForm(ts)
        ELSE IF StrCount(ts, ":") = 1 THEN ParseMinutesForm(ts)
        ELSE ParseBareForm(ts)

(***************************************************************************)
(* parse_srt: every cue carries str(timedelta) for its start and end       *)
(***************************************************************************)
RECURSIVE DecStr(_)
DecStr(n) == IF n < 10 THEN <<Digits[n + 1]>>
             ELSE DecStr(n \div 10) \o <<Digits[(n % 10) + 1]>>

RECURSIVE ZeroPad(_, _)
ZeroPad(n, width) ==
    IF width = 0 THEN <<>>
    ELSE ZeroPad(n \div 10, width - 1) \o <<Digits[(n % 10) + 1]>>

\* str(timedelta(seconds=sec, microseconds=us)): "H:MM:SS" or "H:MM:SS.ffffff"
TimedeltaStr(sec, us) ==
    DecStr(sec \div 3600) \o <<":">> \o ZeroPad((sec % 3600) \div 60, 2)
        \o <<":">> \o ZeroPad(sec % 60, 2)
        \o (IF us # 0 THEN <<".">> \o ZeroPad(us, 6) ELSE <<>>)

\* one element of parse_srt's result, for a sub with whole-second offsets
SrtCue(start_sec, end_sec, content) ==
    [start |-> TimedeltaStr(start_sec, 0),
     end |-> TimedeltaStr(end_sec, 0),
     text |-> content]

(***************************************************************************)
(* Inputs of the model                                                     *)
(***************************************************************************)
SeqsUpTo(S, n) == UNION {[1..k -> S] : k \in 0..n}

\* a timestamp no branch of parse_timestamp can read
BadStamp == <<"x">>

\* "H:MM:SS,mmm", the SRT file's own notation
SrtNotation(sec, ms) ==
    ZeroPad(sec \div 3600, 2) \o <<":">> \o ZeroPad((sec % 3600) \div 60, 2)
        \o <<":">> \o ZeroPad(sec % 60, 2) \o <<",">> \o ZeroPad(ms, 3)

CueChoices ==
    {SrtCue(0, 5, <<"hello", "world">>),
     SrtCue(5, 10, <<"foo", "bar">>),
     SrtCue(7, 10, <<"foo", "bar">>),
     SrtCue(0, 20, <<"Hello", "foo">>),
     SrtCue(5, 5, <<"hello">>),
     SrtCue(10, 5, <<"world">>),
     SrtCue(10, 20, <<>>),
     [start |-> BadStamp, end |-> TimedeltaStr(5, 0), text |-> <<"hello">>]}

ChunkChoices ==
    {SrtCue(0, 10, <<"hello", "world", "foo", "bar">>),
     SrtCue(0, 5, <<"hello", "world">>),
     SrtCue(5, 10, <<"foo", "bar">>),
     SrtCue(0, 19, <<"hello", "foo">>),
     [start |-> SrtNotation(8, 0), end |-> SrtNotation(20, 0),
      text |-> <<"foo", "bar", "baz">>],
     SrtCue(11, 20, <<"foo">>),
     SrtCue(15, 30, <<>>),
     [start |-> TimedeltaStr(0, 0), end |-> BadStamp, text |-> <<"hello">>]}

CueLists == SeqsUpTo(CueChoices, MaxCues)

ChunkLists == SeqsUpTo(ChunkChoices, MaxChunks)

\* longest chunk list of the timeline inputs
MaxTimelineChunks == 3

\* chunks for the adjacent-pair scans: one long chunk, chunks inside it,
\* chunks that touch
TimelineChunkChoices ==
    {SrtCue(0, 30, <<"hello", "world">>),
     SrtCue(5, 10, <<"foo", "bar">>),
     SrtCue(15, 20, <<"foo">>),
     SrtCue(0, 10, <<"hello", "world", "foo", "bar">>),
     SrtCue(10, 15, <<"bar">>)}

TimelineChunkLists == SeqsUpTo(TimelineChunkChoices, MaxTimelineChunks)

TimelineCues ==
    <<SrtCue(0, 5, <<"hello", "world">>), SrtCue(5, 10, <<"foo", "bar">>)>>

\* longest cue list of the transcript inputs
MaxTranscriptCues == 7

\* the i-th one-second cue of a transcript
TranscriptCue(i) ==
    SrtCue(i - 1, i, IF i % 2 = 1 THEN <<"hello">> ELSE <<"world">>)

Reversed(s) == [i \in 1..Len(s) |-> s[Len(s) + 1 - i]]

\* the first n cues, in file order or last cue first
TranscriptCueLists ==
    {[i \in 1..n |-> TranscriptCue(i)] : n \in 0..MaxTranscriptCues}
        \cup {Reversed([i \in 1..n |-> TranscriptCue(i)]) :
                  n \in 0..MaxTranscriptCues}

\* chunks over the first cue, over none, over the first five
TranscriptChunkChoices ==
    {SrtCue(0, 1, <<"hello">>),
     SrtCue(11, 20, <<"foo">>),
     SrtCue(0, 5, <<"hello", "world">>)}

TranscriptChunkLists == SeqsUpTo(TranscriptChunkChoices, MaxChunks)

\* every timestamp string the model's cues and chunks carry
StampsInUse ==
    LET items == CueChoices \cup ChunkChoices \cup TimelineChunkChoices
                    \cup TranscriptChunkChoices
                    \cup {TranscriptCue(i) : i \in 1..MaxTranscriptCues}
    IN  {c.start : c \in items} \cup {c.end : c \in items}

\* parse_timestamp on those strings, evaluated once
StampTable == [s \in StampsInUse |-> parse_timestamp(s)]

\* the calls parse_timestamp(subtitle["start"]), ... made by the validator
ParsedStamp(s) == StampTable[s]

(***************************************************************************)
(* validate_chunk_coverage                                                 *)
(***************************************************************************)
Max2(a, b) == IF a > b THEN a ELSE b

Min2(a, b) == IF a < b THEN a ELSE b

RECURSIVE Gcd(_, _)
Gcd(a, b) == IF b = 0 THEN a ELSE Gcd(b, a % b)

Abs(n) == IF n < 0 THEN 0 - n ELSE n

\* the number num/den (den # 0) as a fraction in lowest terms with den > 0
Frac(num, den) ==
    LET g == Gcd(Abs(num), Abs(den))
        sign == IF den < 0 THEN 0 - 1 ELSE 1
    IN  [num |-> sign * (num \div g), den |-> sign * (den \div g)]

FracLt(f, n) == f.num < n * f.den

FracGe(f, n) == f.num >= n * f.den

FracEq(f, n) == f.num = n * f.den

\* f"{x:.1f}": x rounded to tenths (ties to even), as a number of tenths
Fmt1(f) ==
    LET n == f.num * 10
        q == n \div f.den
        r == n % f.den
    IN  IF 2 * r > f.den \/ (2 * r = f.den /\ q % 2 = 1) THEN q + 1 ELSE q

\* one line of detailed_report
Line(kind, args, text) == [line |-> kind, args |-> args, text |-> text]

\* the dictionary built at the top of the function
validation_report_init ==
    [coverage_complete |-> FALSE,
     missing_subtitles |-> <<>>,
     overlapping_chunks |-> <<>>,
     gaps_in_timeline |-> <<>>,
     duplicate_content |-> <<>>,
     text_coverage_percentage |-> Frac(0, 1),
     timeline_coverage_percentage |-> Frac(0, 1),
     detailed_report |-> <<>>,
     warnings |-> <<>>,
     errors |-> <<>>]

Returned(report, parse_calls) ==
    [outcome |-> "returned", exc |-> "none", report |-> report,
     parse_calls |-> parse_calls]

Raises(exc, parse_calls) ==
    [outcome |-> "raised", exc |-> exc, report |-> validation_report_init,
     parse_calls |-> parse_calls]

\* `if not original_subtitles:` branch
NoSubtitlesReport ==
    [validation_report_init EXCEPT
        !.errors = <<[msg |-> "No original subtitles provided", arg |-> 0]>>]

\* `if not processed_chunks:` branch
NoChunksReport ==
    [validation_report_init EXCEPT
        !.errors = <<[msg |-> "No processed chunks provided", arg |-> 0]>>,
        !.detailed_report =
            <<Line("No chunks were generated from the transcript", <<>>, <<>>)>>]

\* the timestamps in the order the two parsing loops read them
RECURSIVE StampsOf(_)
StampsOf(items) ==
    IF Len(items) = 0 THEN <<>>
    ELSE <<Head(items).start, Head(items).end>> \o StampsOf(Tail(items))

\* number of parse_timestamp calls made: all of them, or up to the first
\* one that raises
ParseCalls(stamps) ==
    IF \A i \in 1..Len(stamps) : ParsedStamp(stamps[i]).ok
    THEN Len(stamps)
    ELSE CHOOSE i \in 1..Len(stamps) :
             /\ ~ParsedStamp(stamps[i]).ok
             /\ \A j \in 1..(i - 1) : ParsedStamp(stamps[j]).ok

\* subtitle_timeline before sorting
SubtitleTimeline(subs) ==
    [i \in 1..Len(subs) |->
        [index |-> i - 1,
         start |-> ParsedStamp(subs[i].start).ms,
         end |-> ParsedStamp(subs[i].end).ms,
         text |-> subs[i].text,
         covered |-> FALSE]]

\* chunk_timeline before sorting
ChunkTimeline(chunks) ==
    [i \in 1..Len(chunks) |->
        [index |-> i - 1,
         start |-> ParsedStamp(chunks[i].start).ms,
         end |-> ParsedStamp(chunks[i].end).ms,
         text |-> chunks[i].text]]

\* list.sort(key=lambda x: x["start"]): stable, ascending
RECURSIVE SortByStart(_)
SortByStart(s) ==
    IF Len(s) <= 1 THEN s
    ELSE LET h == Head(s)
             rest == SortByStart(Tail(s))
             before == Cardinality({i \in 1..Len(rest) : rest[i].start < h.start})
         IN  SubSeq(rest, 1, before) \o <<h>> \o SubSeq(rest, before + 1, Len(rest))

\* plausible slip: touching intervals count as overlapping
OverlapsOrTouches(subtitle, chunk) ==
    subtitle.start <= chunk.end /\ subtitle.end >= chunk.start

\* `subtitle["start"] < chunk_end and subtitle["end"] > chunk_start`
Overlaps(subtitle, chunk) ==
    subtitle.start < chunk.end /\ subtitle.end > chunk.start

\* what one (chunk, subtitle) pair adds to covered_duration
OverlapDuration(subtitle, chunk) ==
    LET overlap_start == Max2(subtitle.start, chunk.start)
        overlap_end == Min2(subtitle.end, chunk.end)
    IN  IF Overlaps(subtitle, chunk) /\ overlap_end > overlap_start
        THEN overlap_end - overlap_start
        ELSE 0

RECURSIVE SumOverSubtitles(_, _)
SumOverSubtitles(subtitle_timeline, chunk) ==
    IF Len(subtitle_timeline) = 0 THEN 0
    ELSE OverlapDuration(Head(subtitle_timeline), chunk)
            + SumOverSubtitles(Tail(subtitle_timeline), chunk)

\* covered_duration after the nested loop
RECURSIVE CoveredDuration(_, _)
CoveredDuration(subtitle_timeline, chunk_timeline) ==
    IF Len(chunk_timeline) = 0 THEN 0
    ELSE SumOverSubtitles(subtitle_timeline, Head(chunk_timeline))
            + CoveredDuration(subtitle_timeline, Tail(chunk_timeline))

\* subtitle_timeline after the nested loop has set the covered flags
MarkCovered(subtitle_timeline, chunk_timeline) ==
    [i \in 1..Len(subtitle_timeline) |->
        [subtitle_timeline[i] EXCEPT !.covered =
            \E k \in 1..Len(chunk_timeline) :
                Overlaps(subtitle_timeline[i], chunk_timeline[k])]]

\* `subtitle_timeline[-1]["end"] - subtitle_timeline[0]["start"]`
TotalSubtitleDuration(subtitle_timeline) ==
    subtitle_timeline[Len(subtitle_timeline)].end - subtitle_timeline[1].start

\* str.lower() on one word; only these words of the model have upper case
Lower(word) == IF word = "Hello" THEN "hello" ELSE word

\* set(normalize_text(text).split()) for one text
WordSet(text) == {Lower(text[i]) : i \in 1..Len(text)}

\* set(' '.join(normalize_text(x["text"]) for x in items).split())
CombinedWords(items) == UNION {WordSet(items[i].text) : i \in 1..Len(items)}

\* plausible slip: the ratio taken over the union, as in the duplicate check
TextCoverageOverUnion(subs, chunks) ==
    LET original_words == CombinedWords(subs)
        chunk_words == CombinedWords(chunks)
    IN  IF original_words # {}
        THEN Frac(Cardinality(chunk_words \cap original_words) * 100,
                  Cardinality(chunk_words \cup original_words))
        ELSE Frac(0, 1)

\* text_coverage_percentage: stays 0.0 when original_words is empty
TextCoverage(subs, chunks) ==
    LET original_words == CombinedWords(subs)
        chunk_words == CombinedWords(chunks)
    IN  IF original_words # {}
        THEN Frac(Cardinality(chunk_words \cap original_words) * 100,
                  Cardinality(original_words))
        ELSE Frac(0, 1)

\* `[sub for sub in subtitle_timeline if not sub["covered"]]`
NotCovered(sub) == ~sub.covered

MissingSubtitles(subtitle_timeline) == SelectSeq(subtitle_timeline, NotCovered)

\* plausible slip: the distance between the two bounds compared, so that a
\* pair overlapping by more than one second is a gap as well
IsGapAbsolute(current, next) == Abs(next.start - current.end) > 1000

\* plausible slip: a gap of exactly one second reported too
IsGapFromOneSecond(current, next) == next.start >= current.end + 1000

\* `next_start > current_end + 1`, one second being 1000 ms
IsGap(current, next) == next.start > current.end + 1000

RECURSIVE Gaps(_, _)
Gaps(chunk_timeline, i) ==
    IF i >= Len(chunk_timeline) THEN <<>>
    ELSE (IF IsGap(chunk_timeline[i], chunk_timeline[i + 1])
          THEN <<[gap_start |-> chunk_timeline[i].end,
                  gap_end |-> chunk_timeline[i + 1].start,
                  duration |-> chunk_timeline[i + 1].start - chunk_timeline[i].end,
                  after_chunk |-> i - 1,
                  before_chunk |-> i]>>
          ELSE <<>>)
         \o Gaps(chunk_timeline, i + 1)

\* plausible slip: chunks that only touch reported as overlapping
IsOverlapOrTouch(current, next) == next.start <= current.end

\* `next_start < current_end`
IsOverlap(current, next) == next.start < current.end

RECURSIVE ChunkOverlaps(_, _)
ChunkOverlaps(chunk_timeline, i) ==
    IF i >= Len(chunk_timeline) THEN <<>>
    ELSE (IF IsOverlap(chunk_timeline[i], chunk_timeline[i + 1])
          THEN <<[chunk1 |-> i - 1,
                  chunk2 |-> i,
                  overlap_duration |->
                      chunk_timeline[i].end - chunk_timeline[i + 1].start,
                  overlap_start |-> chunk_timeline[i + 1].start,
                  overlap_end |-> chunk_timeline[i].end]>>
          ELSE <<>>)
         \o ChunkOverlaps(chunk_timeline, i + 1)

\* plausible slip: a ratio of exactly one half flagged too
IsDuplicateFromHalf(words1, words2) ==
    /\ words1 # {}
    /\ words2 # {}
    /\ 2 * Cardinality(words1 \cap words2) >= Cardinality(words1 \cup words2)

\* `if words1 and words2:` ... `if overlap_ratio > 0.5:`
IsDuplicate(words1, words2) ==
    /\ words1 # {}
    /\ words2 # {}
    /\ 2 * Cardinality(words1 \cap words2) > Cardinality(words1 \cup words2)

\* the pairs i < j of the nested loop, in generation order (0-based indices)
RECURSIVE Duplicates(_, _, _)
Duplicates(chunks, i, j) ==
    IF i > Len(chunks) THEN <<>>
    ELSE IF j > Len(chunks) THEN Duplicates(chunks, i + 1, i + 2)
    ELSE (IF IsDuplicate(WordSet(chunks[i].text), WordSet(chunks[j].text))
          THEN <<[chunk1 |-> i - 1,
                  chunk2 |-> j - 1,
                  overlap_ratio |->
                      Frac(Cardinality(WordSet(chunks[i].text)
                                       \cap WordSet(chunks[j].text)),
                           Cardinality(WordSet(chunks[i].text)
                                       \cup WordSet(chunks[j].text)))]>>
          ELSE <<>>)
         \o Duplicates(chunks, i, j + 1)

\* plausible slip: the two coverage thresholds tested with <=
ErrorsAtThreshold(missing, text_pct, timeline_pct) ==
    (IF Len(missing) > 0
     THEN <<[msg |-> "Missing N subtitles in chunks", arg |-> Len(missing)]>>
     ELSE <<>>)
    \o (IF ~FracGe(text_pct, 95) \/ FracEq(text_pct, 95)
        THEN <<[msg |-> "Text coverage is only X%", arg |-> Fmt1(text_pct)]>>
        ELSE <<>>)
    \o (IF ~FracGe(timeline_pct, 95) \/ FracEq(timeline_pct, 95)
        THEN <<[msg |-> "Timeline coverage is only X%", arg |-> Fmt1(timeline_pct)]>>
        ELSE <<>>)

\* step 7: the errors list
Errors(missing, text_pct, timeline_pct) ==
    (IF Len(missing) > 0
     THEN <<[msg |-> "Missing N subtitles in chunks", arg |-> Len(missing)]>>
     ELSE <<>>)
    \o (IF FracLt(text_pct, 95)
        THEN <<[msg |-> "Text coverage is only X%", arg |-> Fmt1(text_pct)]>>
        ELSE <<>>)
    \o (IF FracLt(timeline_pct, 95)
        THEN <<[msg |-> "Timeline coverage is only X%", arg |-> Fmt1(timeline_pct)]>>
        ELSE <<>>)

\* step 7: the warnings list
Warnings(gaps, overlaps, duplicates) ==
    (IF Len(gaps) > 0
     THEN <<[msg |-> "Found N timeline gaps", arg |-> Len(gaps)]>>
     ELSE <<>>)
    \o (IF Len(overlaps) > 0
        THEN <<[msg |-> "Found N overlapping chunks", arg |-> Len(overlaps)]>>
        ELSE <<>>)
    \o (IF Len(duplicates) > 0
        THEN <<[msg |-> "Found N duplicate content sections",
                arg |-> Len(duplicates)]>>
        ELSE <<>>)

\* plausible slip: the thresholds made exclusive
CoverageCompleteExclusive(missing, text_pct, timeline_pct, errors) ==
    /\ Len(missing) = 0
    /\ ~FracLt(text_pct, 95) /\ ~FracEq(text_pct, 95)
    /\ ~FracLt(timeline_pct, 95) /\ ~FracEq(timeline_pct, 95)
    /\ Len(errors) = 0

\* step 8: the verdict
CoverageComplete(missing, text_pct, timeline_pct, errors) ==
    /\ Len(missing) = 0
    /\ FracGe(text_pct, 95)
    /\ FracGe(timeline_pct, 95)
    /\ Len(errors) = 0

\* step 9: report_lines
MessageLines(heading, messages) ==
    IF Len(messages) = 0 THEN <<>>
    ELSE <<Line(heading, <<Len(messages)>>, <<>>)>>
         \o [i \in 1..Len(messages) |->
                Line(messages[i].msg, <<messages[i].arg>>, <<>>)]

\* plausible slip: the "... and N more" line written from five missing
\* subtitles on
MissingLinesMoreFromFive(missing) ==
    IF Len(missing) = 0 THEN <<>>
    ELSE <<Line("MISSING SUBTITLES", <<Len(missing)>>, <<>>)>>
         \o [i \in 1..Min2(Len(missing), 5) |->
                Line("missing", <<missing[i].start, missing[i].end>>,
                     missing[i].text)]
         \o (IF Len(missing) >= 5
             THEN <<Line("... and N more", <<Len(missing) - 5>>, <<>>)>>
             ELSE <<>>)

\* `missing_subtitles[:5]` and the "... and N more" line
MissingLines(missing) ==
    IF Len(missing) = 0 THEN <<>>
    ELSE <<Line("MISSING SUBTITLES", <<Len(missing)>>, <<>>)>>
         \o [i \in 1..Min2(Len(missing), 5) |->
                Line("missing", <<missing[i].start, missing[i].end>>,
                     missing[i].text)]
         \o (IF Len(missing) > 5
             THEN <<Line("... and N more", <<Len(missing) - 5>>, <<>>)>>
             ELSE <<>>)

GapLines(gaps) ==
    IF Len(gaps) = 0 THEN <<>>
    ELSE <<Line("TIMELINE GAPS", <<Len(gaps)>>, <<>>)>>
         \o [i \in 1..Len(gaps) |->
                Line("Gap", <<gaps[i].gap_start, gaps[i].gap_end,
                              gaps[i].duration>>, <<>>)]

OverlapLines(overlaps) ==
    IF Len(overlaps) = 0 THEN <<>>
    ELSE <<Line("OVERLAPPING CHUNKS", <<Len(overlaps)>>, <<>>)>>
         \o [i \in 1..Len(overlaps) |->
                Line("Chunks overlap", <<overlaps[i].chunk1, overlaps[i].chunk2,
                                         overlaps[i].overlap_duration>>, <<>>)]

DuplicateLines(duplicates) ==
    IF Len(duplicates) = 0 THEN <<>>
    ELSE <<Line("DUPLICATE CONTENT", <<Len(duplicates)>>, <<>>)>>
         \o [i \in 1..Len(duplicates) |->
                Line("Chunks similarity",
                     <<duplicates[i].chunk1, duplicates[i].chunk2,
                       duplicates[i].overlap_ratio.num,
                       duplicates[i].overlap_ratio.den>>, <<>>)]

DetailedReport(r, n_subs, n_chunks) ==
    <<Line("TRANSCRIPT VALIDATION REPORT", <<>>, <<>>),
      Line(IF r.coverage_complete THEN "VALIDATION PASSED"
                                  ELSE "VALIDATION FAILED", <<>>, <<>>),
      Line("Text Coverage", <<Fmt1(r.text_coverage_percentage)>>, <<>>),
      Line("Timeline Coverage", <<Fmt1(r.timeline_coverage_percentage)>>, <<>>),
      Line("Original Subtitles", <<n_subs>>, <<>>),
      Line("Generated Chunks", <<n_chunks>>, <<>>)>>
    \o MessageLines("ERRORS", r.errors)
    \o MessageLines("WARNINGS", r.warnings)
    \o MissingLines(r.missing_subtitles)
    \o GapLines(r.gaps_in_timeline)
    \o OverlapLines(r.overlapping_chunks)
    \o DuplicateLines(r.duplicate_content)

\* timeline_coverage_percentage: (covered_duration / total_subtitle_duration) * 100
TimelineCoverage(covered_duration, total_subtitle_duration) ==
    Frac(covered_duration * 100, total_subtitle_duration)

\* steps 1 to 9 once every timestamp has parsed and the division is defined
FullReport(subs, chunks) ==
    LET chunk_timeline == SortByStart(ChunkTimeline(chunks))
        sorted_subs == SortByStart(SubtitleTimeline(subs))
        subtitle_timeline == MarkCovered(sorted_subs, chunk_timeline)
        timeline_pct ==
            TimelineCoverage(CoveredDuration(sorted_subs, chunk_timeline),
                             TotalSubtitleDuration(sorted_subs))
        text_pct == TextCoverage(subs, chunks)
        missing == MissingSubtitles(subtitle_timeline)
        gaps == Gaps(chunk_timeline, 1)
        overlaps == ChunkOverlaps(chunk_timeline, 1)
        duplicates == Duplicates(chunks, 1, 2)
        errors == Errors(missing, text_pct, timeline_pct)
        r == [coverage_complete |->
                  CoverageComplete(missing, text_pct, timeline_pct, errors),
              missing_subtitles |-> missing,
              overlapping_chunks |-> overlaps,
              gaps_in_timeline |-> gaps,
              duplicate_content |-> duplicates,
              text_coverage_percentage |-> text_pct,
              timeline_coverage_percentage |-> timeline_pct,
              detailed_report |-> <<>>,
              warnings |-> Warnings(gaps, overlaps, duplicates),
              errors |-> errors]
    IN  [r EXCEPT !.detailed_report = DetailedReport(r, Len(subs), Len(chunks))]

\* the function body after the two empty-input guards
AnalyzeCoverage(subs, chunks) ==
    LET stamps == StampsOf(subs) \o StampsOf(chunks)
    IN  IF \E i \in 1..Len(stamps) : ~ParsedStamp(stamps[i]).ok
        THEN Raises("ValueError", ParseCalls(stamps))
        ELSE IF TotalSubtitleDuration(SortByStart(SubtitleTimeline(subs))) = 0
        THEN Raises("ZeroDivisionError", Len(stamps))
        ELSE Returned(FullReport(subs, chunks), Len(stamps))

\* plausible slip: the two guards in the other order
ValidateChunksGuardFirst(subs, chunks) ==
    IF Len(chunks) = 0 THEN Returned(NoChunksReport, 0)
    ELSE IF Len(subs) = 0 THEN Returned(NoSubtitlesReport, 0)
    ELSE AnalyzeCoverage(subs, chunks)

\* plausible slip: no guard for an empty chunk list
ValidateWithoutChunksGuard(subs, chunks) ==
    IF Len(subs) = 0 THEN Returned(NoSubtitlesReport, 0)
    ELSE AnalyzeCoverage(subs, chunks)

\* plausible slip: a report with warnings is failed
ValidateWarningsBlock(subs, chunks) ==
    IF Len(subs) = 0 THEN Returned(NoSubtitlesReport, 0)
    ELSE IF Len(chunks) = 0 THEN Returned(NoChunksReport, 0)
    ELSE LET res == AnalyzeCoverage(subs, chunks)
         IN  IF res.outcome = "returned" /\ Len(res.report.warnings) > 0
             THEN Returned([res.report EXCEPT !.coverage_complete = FALSE],
                           res.parse_calls)
             ELSE res

validate_chunk_coverage(subs, chunks) ==
    IF Len(subs) = 0 THEN Returned(NoSubtitlesReport, 0)
    ELSE IF Len(chunks) = 0 THEN Returned(NoChunksReport, 0)
    ELSE AnalyzeCoverage(subs, chunks)

NoResult == [outcome |-> "none", exc |-> "none",
             report |-> validation_report_init, parse_calls |-> 0]

NoOrigin == [form |-> "none", h |-> 0, m |-> 0, s |-> 0, sep |-> ".",
             has_frac |-> FALSE, frac_val |-> 0, frac_len |-> 0]

\* the requests that may be inside validate_chunk_coverage at the same time
Callers == {"a", "b"}

\* the lists they pass: no cue, no chunk, a clean pass, three errors,
\* warnings only, an unreadable cue timestamp, a zero span, an unreadable
\* chunk timestamp
CallInputs ==
    {[subs |-> <<>>,
      chunks |-> <<SrtCue(0, 10, <<"hello", "world", "foo", "bar">>)>>],
     [subs |-> <<SrtCue(0, 5, <<"hello", "world">>)>>,
      chunks |-> <<>>],
     [subs |-> <<SrtCue(0, 5, <<"hello", "world">>), SrtCue(5, 10, <<"foo", "bar">>)>>,
      chunks |-> <<SrtCue(0, 10, <<"hello", "world", "foo", "bar">>)>>],
     [subs |-> <<SrtCue(0, 5, <<"hello", "world">>), SrtCue(5, 10, <<"foo", "bar">>)>>,
      chunks |-> <<SrtCue(11, 20, <<"foo">>)>>],
     [subs |-> <<SrtCue(5, 10, <<"foo", "bar">>), SrtCue(0, 5, <<"hello", "world">>)>>,
      chunks |-> <<SrtCue(0, 10, <<"hello", "world", "foo", "bar">>),
                   SrtCue(0, 10, <<"hello", "world", "foo", "bar">>)>>],
     [subs |-> <<[start |-> BadStamp, end |-> TimedeltaStr(5, 0),
                  text |-> <<"hello">>]>>,
      chunks |-> <<SrtCue(0, 5, <<"hello", "world">>)>>],
     [subs |-> <<SrtCue(5, 5, <<"hello">>)>>,
      chunks |-> <<SrtCue(0, 5, <<"hello", "world">>)>>],
     [subs |-> <<SrtCue(0, 5, <<"hello", "world">>)>>,
      chunks |-> <<[start |-> TimedeltaStr(0, 0), end |-> BadStamp,
                    text |-> <<"hello">>]>>]}

NoArgs == [subs |-> <<>>, chunks |-> <<>>]

NoEarlier == [called |-> FALSE, subs |-> <<>>, chunks |-> <<>>, result |-> NoResult]

\* the local names of validate_chunk_coverage before the first statement
BlankFrame ==
    [original_subtitles |-> <<>>,
     processed_chunks |-> <<>>,
     validation_report |-> validation_report_init,
     subtitle_timeline |-> <<>>,
     chunk_timeline |-> <<>>,
     total_subtitle_duration |-> 0,
     covered_duration |-> 0,
     chunks_done |-> 0,
     parse_calls |-> 0,
     exc |-> "none"]

\* plausible slip: the local names kept at module level, one set for all
FrameShared(c) == "a"

\* every call runs in a frame of its own
FrameOf(c) == c

\* plausible slip: the report dictionary built once, outside the function,
\* so that a call goes on with the dictionary the call before it left
EnterFrameKeepingReport(frame, subs, chunks) ==
    [BlankFrame EXCEPT !.original_subtitles = subs,
                       !.processed_chunks = chunks,
                       !.validation_report = frame.validation_report]

\* the call binds its parameters and builds a new report dictionary
EnterFrame(frame, subs, chunks) ==
    [BlankFrame EXCEPT !.original_subtitles = subs,
                       !.processed_chunks = chunks,
                       !.validation_report = validation_report_init]

\* the response carries no validation block (validation=None)
NoValidationInfo ==
    [present |-> FALSE, coverage_complete |-> FALSE,
     text_coverage_percentage |-> Frac(0, 1),
     timeline_coverage_percentage |-> Frac(0, 1),
     missing_subtitles_count |-> 0, timeline_gaps_count |-> 0,
     overlapping_chunks_count |-> 0, errors |-> <<>>, warnings |-> <<>>,
     has_detailed_report |-> FALSE, detailed_report |-> <<>>]

NoResponse ==
    [status |-> "none", chunks_uploaded |-> 0, validation |-> NoValidationInfo]

\* no request is being served
NoUpload ==
    [step |-> "idle", mode |-> "warn", subtitles |-> <<>>,
     llm_output |-> "none", processed_chunks |-> <<>>,
     validation_report |-> NoResult, calls |-> <<>>, status_code |-> 0,
     response |-> NoResponse]

\* VALIDATION_MODE as the deployment sets it; "warn" when it is not set
ValidationModes == {"strict", "warn", "detailed"}

\* what parse_srt makes of the uploaded file
UploadSubtitles ==
    {<<>>,
     <<SrtCue(0, 5, <<"hello", "world">>)>>,
     <<SrtCue(0, 5, <<"hello", "world">>), SrtCue(5, 10, <<"foo", "bar">>)>>}

\* the "chunks" of the LLM's JSON answer: none, one covering chunk, the
\* same chunk twice, one chunk past the cues, one with an unreadable end
LlmChunkLists ==
    {<<>>,
     <<SrtCue(0, 10, <<"hello", "world", "foo", "bar">>)>>,
     <<SrtCue(0, 10, <<"hello", "world", "foo", "bar">>),
       SrtCue(0, 10, <<"hello", "world", "foo", "bar">>)>>,
     <<SrtCue(11, 20, <<"foo">>)>>,
     <<[start |-> TimedeltaStr(0, 0), end |-> BadStamp, text |-> <<"hello">>]>>}

\* plausible slip: a strict upload turned down for warnings as well
RejectsOnWarnings(mode, report) ==
    mode = "strict" /\ (~report.coverage_complete \/ Len(report.warnings) > 0)

\* `validation_mode == "strict" and not validation_report["coverage_complete"]`
Rejects(mode, report) == mode = "strict" /\ ~report.coverage_complete

\* plausible slip: the report attached by mode only
IncludeValidationByMode(mode, report) == mode \in {"detailed", "strict"}

\* `validation_mode in ["detailed", "strict"] or not coverage_complete`
IncludeValidation(mode, report) ==
    mode \in {"detailed", "strict"} \/ ~report.coverage_complete

\* ValidationInfo(...) as the response carries it
ValidationInfoOf(mode, report) ==
    [present |-> TRUE,
     coverage_complete |-> report.coverage_complete,
     text_coverage_percentage |-> report.text_coverage_percentage,
     timeline_coverage_percentage |-> report.timeline_coverage_percentage,
     missing_subtitles_count |-> Len(report.missing_subtitles),
     timeline_gaps_count |-> Len(report.gaps_in_timeline),
     overlapping_chunks_count |-> Len(report.overlapping_chunks),
     errors |-> report.errors,
     warnings |-> report.warnings,
     has_detailed_report |-> (mode = "detailed"),
     detailed_report |-> IF mode = "detailed" THEN report.detailed_report
                         ELSE <<>>]

(***************************************************************************)
(* The validator called on arbitrary lists                                 *)
(***************************************************************************)
Init ==
    /\ original_subtitles = <<>>
    /\ processed_chunks = <<>>
    /\ result = NoResult
    /\ timestamp = <<>>
    /\ ts_origin = NoOrigin
    /\ total_seconds = Raised("none")
    /\ pc = [c \in Callers |-> "idle"]
    /\ call_args = [c \in Callers |-> NoArgs]
    /\ frames = [c \in Callers |-> BlankFrame]
    /\ earlier = NoEarlier
    /\ upload = NoUpload

\* one call of validate_chunk_coverage(subs, chunks), start to finish
ValidateChunkCoverage ==
    /\ result.outcome = "none"
    /\ \E subs \in CueLists, chunks \in ChunkLists :
        /\ original_subtitles' = subs
        /\ processed_chunks' = chunks
        /\ result' = validate_chunk_coverage(subs, chunks)
    /\ UNCHANGED <<timestamp, ts_origin, total_seconds, pc, call_args, frames, earlier, upload>>

\* the caller has consumed the report or the exception; nothing of the call
\* is kept (the function has no module-level state)
CallerDone ==
    /\ result.outcome # "none"
    /\ original_subtitles' = <<>>
    /\ processed_chunks' = <<>>
    /\ result' = NoResult
    /\ UNCHANGED <<timestamp, ts_origin, total_seconds, pc, call_args, frames, earlier, upload>>

Next == ValidateChunkCoverage \/ CallerDone

Spec == Init /\ [][Next]_vars

\* one call with a chunk list of up to MaxTimelineChunks chunks
ValidateTimeline ==
    /\ result.outcome = "none"
    /\ \E chunks \in TimelineChunkLists :
        /\ original_subtitles' = TimelineCues
        /\ processed_chunks' = chunks
        /\ result' = validate_chunk_coverage(TimelineCues, chunks)
    /\ UNCHANGED <<timestamp, ts_origin, total_seconds, pc, call_args, frames, earlier, upload>>

NextTimeline == ValidateTimeline \/ CallerDone

SpecTimeline == Init /\ [][NextTimeline]_vars

\* one call with a transcript of up to MaxTranscriptCues cues
ValidateTranscript ==
    /\ result.outcome = "none"
    /\ \E subs \in TranscriptCueLists, chunks \in TranscriptChunkLists :
        /\ original_subtitles' = subs
        /\ processed_chunks' = chunks
        /\ result' = validate_chunk_coverage(subs, chunks)
    /\ UNCHANGED <<timestamp, ts_origin, total_seconds, pc, call_args, frames, earlier, upload>>

NextTranscript == ValidateTranscript \/ CallerDone

SpecTranscript == Init /\ [][NextTranscript]_vars

(***************************************************************************)
(* parse_timestamp called on strings written from known field values       *)
(***************************************************************************)
HourValues == {0, 1}

MinuteValues == {0, 1, 59}

SecondValues == {0, 5, 59}

Separators == {".", ","}

\* fractional fields as (value, number of digits): "0", "5", "50", "005",
\* "500", "500000", "999999", ...
FracFields ==
    {f \in [val : {0, 5, 50, 500, 999, 5000, 500000, 999999, 5000000},
            len : 1..MaxFracDigits] : f.val < Pow10(f.len)}

\* the optional fractional part of a written timestamp
FracPart(has_frac, sep, val, len) ==
    IF has_frac THEN <<sep>> \o ZeroPad(val, len) ELSE <<>>

Origin(form, h, m, s, sep, has_frac, val, len) ==
    [form |-> form, h |-> h, m |-> m, s |-> s, sep |-> sep,
     has_frac |-> has_frac, frac_val |-> val, frac_len |-> len]

\* the strings the callers write
HoursStamp(h, m, s, has_frac, sep, f) ==
    DecStr(h) \o <<":">> \o ZeroPad(m, 2) \o <<":">> \o ZeroPad(s, 2)
        \o FracPart(has_frac, sep, f.val, f.len)

MinutesStamp(m, s, has_frac, sep, f) ==
    DecStr(m) \o <<":">> \o ZeroPad(s, 2) \o FracPart(has_frac, sep, f.val, f.len)

BareStamp(s, has_frac, sep, f) ==
    DecStr(s) \o FracPart(has_frac, sep, f.val, f.len)

WrittenOrigin(form, h, m, s, has_frac, sep, f) ==
    IF has_frac THEN Origin(form, h, m, s, sep, TRUE, f.val, f.len)
    ELSE Origin(form, h, m, s, ".", FALSE, 0, 0)

\* parse_timestamp(str(td)) on a cue boundary made by parse_srt
ParseSrtStamp ==
    /\ ts_origin.form = "none"
    /\ \E sec \in {0, 1, 65, 3661}, us \in {0, 1, 5000, 500000, 999999} :
        /\ timestamp' = TimedeltaStr(sec, us)
        /\ ts_origin' = Origin("srt", sec \div 3600, (sec % 3600) \div 60,
                               sec % 60, ".", us # 0, us, IF us # 0 THEN 6 ELSE 0)
        /\ total_seconds' = parse_timestamp(TimedeltaStr(sec, us))
    /\ UNCHANGED <<original_subtitles, processed_chunks, result,
                   pc, call_args, frames, earlier, upload>>

\* parse_timestamp("H:MM:SS"), ("H:MM:SS.f..."), ("H:MM:SS,f...")
ParseHoursStamp ==
    /\ ts_origin.form = "none"
    /\ \E h \in HourValues, m \in MinuteValues, s \in SecondValues,
          sep \in Separators, f \in FracFields, has_frac \in BOOLEAN :
        /\ timestamp' = HoursStamp(h, m, s, has_frac, sep, f)
        /\ ts_origin' = WrittenOrigin("hours", h, m, s, has_frac, sep, f)
        /\ total_seconds' = parse_timestamp(HoursStamp(h, m, s, has_frac, sep, f))
    /\ UNCHANGED <<original_subtitles, processed_chunks, result,
                   pc, call_args, frames, earlier, upload>>

\* parse_timestamp("M:SS"), ("M:SS.f..."), ("M:SS,f...")
ParseMinutesStamp ==
    /\ ts_origin.form = "none"
    /\ \E m \in MinuteValues, s \in SecondValues,
          sep \in Separators, f \in FracFields, has_frac \in BOOLEAN :
        /\ timestamp' = MinutesStamp(m, s, has_frac, sep, f)
        /\ ts_origin' = WrittenOrigin("minutes", 0, m, s, has_frac, sep, f)
        /\ total_seconds' = parse_timestamp(MinutesStamp(m, s, has_frac, sep, f))
    /\ UNCHANGED <<original_subtitles, processed_chunks, result,
                   pc, call_args, frames, earlier, upload>>

\* parse_timestamp("S"), ("S.f"), ("S,f") with at most three fractional digits
ParseBareStamp ==
    /\ ts_origin.form = "none"
    /\ \E s \in SecondValues \cup {65}, sep \in Separators,
          f \in {g \in FracFields : g.len <= 3}, has_frac \in BOOLEAN :
        /\ timestamp' = BareStamp(s, has_frac, sep, f)
        /\ ts_origin' = WrittenOrigin("bare", 0, 0, s, has_frac, sep, f)
        /\ total_seconds' = parse_timestamp(BareStamp(s, has_frac, sep, f))
    /\ UNCHANGED <<original_subtitles, processed_chunks, result,
                   pc, call_args, frames, earlier, upload>>

RawAlphabet == {"1", ":", ".", ",", "x"}

\* parse_timestamp on an arbitrary short string
ParseRawStamp ==
    /\ ts_origin.form = "none"
    /\ \E raw \in SeqsUpTo(RawAlphabet, MaxRawLen) :
        /\ timestamp' = raw
        /\ ts_origin' = Origin("raw", 0, 0, 0, ".", FALSE, 0, 0)
        /\ total_seconds' = parse_timestamp(raw)
    /\ UNCHANGED <<original_subtitles, processed_chunks, result,
                   pc, call_args, frames, earlier, upload>>

\* the caller has consumed the value or the exception
ParseDone ==
    /\ ts_origin.form # "none"
    /\ timestamp' = <<>>
    /\ ts_origin' = NoOrigin
    /\ total_seconds' = Raised("none")
    /\ UNCHANGED <<original_subtitles, processed_chunks, result,
                   pc, call_args, frames, earlier, upload>>

NextParse ==
    \/ ParseSrtStamp
    \/ ParseHoursStamp
    \/ ParseMinutesStamp
    \/ ParseBareStamp
    \/ ParseRawStamp
    \/ ParseDone

SpecParse == Init /\ [][NextParse]_vars

(***************************************************************************)
(* validate_chunk_coverage statement by statement, for several requests at *)
(* once: each action is one statement, or one turn of a loop, of one call  *)
(***************************************************************************)
\* the def line and the dictionary literal
Enter(c) ==
    /\ pc[c] = "idle"
    /\ \E input \in CallInputs :
        /\ call_args' = [call_args EXCEPT ![c] = input]
        /\ frames' = [frames EXCEPT ![FrameOf(c)] =
                          EnterFrame(frames[FrameOf(c)], input.subs, input.chunks)]
    /\ pc' = [pc EXCEPT ![c] = "guards"]
    /\ UNCHANGED <<original_subtitles, processed_chunks, result,
                   timestamp, ts_origin, total_seconds, earlier, upload>>

\* `if not original_subtitles:` and `if not processed_chunks:`
Guards(c) ==
    /\ pc[c] = "guards"
    /\ LET frame == frames[FrameOf(c)]
       IN  IF Len(frame.original_subtitles) = 0
           THEN /\ frames' = [frames EXCEPT ![FrameOf(c)].validation_report.errors =
                    Append(@, [msg |-> "No original subtitles provided", arg |-> 0])]
                /\ pc' = [pc EXCEPT ![c] = "return"]
           ELSE IF Len(frame.processed_chunks) = 0
           THEN /\ frames' = [frames EXCEPT
                    ![FrameOf(c)].validation_report.errors =
                        Append(@, [msg |-> "No processed chunks provided", arg |-> 0]),
                    ![FrameOf(c)].validation_report.detailed_report =
                        <<Line("No chunks were generated from the transcript",
                               <<>>, <<>>)>>]
                /\ pc' = [pc EXCEPT ![c] = "return"]
           ELSE /\ frames' = frames
                /\ pc' = [pc EXCEPT ![c] = "parse_subtitles"]
    /\ UNCHANGED <<original_subtitles, processed_chunks, result,
                   timestamp, ts_origin, total_seconds, call_args, earlier, upload>>

\* the loop that fills subtitle_timeline
ParseSubtitles(c) ==
    /\ pc[c] = "parse_subtitles"
    /\ LET frame == frames[FrameOf(c)]
           stamps == StampsOf(frame.original_subtitles)
       IN  IF \E i \in 1..Len(stamps) : ~ParsedStamp(stamps[i]).ok
           THEN /\ frames' = [frames EXCEPT
                    ![FrameOf(c)].exc = "ValueError",
                    ![FrameOf(c)].parse_calls = ParseCalls(stamps)]
                /\ pc' = [pc EXCEPT ![c] = "raised"]
           ELSE /\ frames' = [frames EXCEPT
                    ![FrameOf(c)].subtitle_timeline =
                        SubtitleTimeline(frame.original_subtitles),
                    ![FrameOf(c)].parse_calls = Len(stamps)]
                /\ pc' = [pc EXCEPT ![c] = "parse_chunks"]
    /\ UNCHANGED <<original_subtitles, processed_chunks, result,
                   timestamp, ts_origin, total_seconds, call_args, earlier, upload>>

\* the loop that fills chunk_timeline
ParseChunks(c) ==
    /\ pc[c] = "parse_chunks"
    /\ LET frame == frames[FrameOf(c)]
           stamps == StampsOf(frame.processed_chunks)
       IN  IF \E i \in 1..Len(stamps) : ~ParsedStamp(stamps[i]).ok
           THEN /\ frames' = [frames EXCEPT
                    ![FrameOf(c)].exc = "ValueError",
                    ![FrameOf(c)].parse_calls = @ + ParseCalls(stamps)]
                /\ pc' = [pc EXCEPT ![c] = "raised"]
           ELSE /\ frames' = [frames EXCEPT
                    ![FrameOf(c)].chunk_timeline =
                        ChunkTimeline(frame.processed_chunks),
                    ![FrameOf(c)].parse_calls = @ + Len(stamps)]
                /\ pc' = [pc EXCEPT ![c] = "sort"]
    /\ UNCHANGED <<original_subtitles, processed_chunks, result,
                   timestamp, ts_origin, total_seconds, call_args, earlier, upload>>

\* plausible slip: the caller's two lists put in start order as well
SortTimelinesInPlace(c) ==
    /\ pc[c] = "sort"
    /\ LET frame == frames[FrameOf(c)]
           subtitle_timeline == SortByStart(frame.subtitle_timeline)
           chunk_timeline == SortByStart(frame.chunk_timeline)
       IN  frames' = [frames EXCEPT
               ![FrameOf(c)].subtitle_timeline = subtitle_timeline,
               ![FrameOf(c)].chunk_timeline = chunk_timeline,
               ![FrameOf(c)].original_subtitles =
                   [i \in 1..Len(subtitle_timeline) |->
                       frame.original_subtitles[subtitle_timeline[i].index + 1]],
               ![FrameOf(c)].processed_chunks =
                   [i \in 1..Len(chunk_timeline) |->
                       frame.processed_chunks[chunk_timeline[i].index + 1]]]
    /\ pc' = [pc EXCEPT ![c] = "start_cover"]
    /\ UNCHANGED <<original_subtitles, processed_chunks, result,
                   timestamp, ts_origin, total_seconds, call_args, earlier, upload>>

\* the two list.sort calls
SortTimelines(c) ==
    /\ pc[c] = "sort"
    /\ frames' = [frames EXCEPT
            ![FrameOf(c)].subtitle_timeline = SortByStart(@),
            ![FrameOf(c)].chunk_timeline = SortByStart(@)]
    /\ pc' = [pc EXCEPT ![c] = "start_cover"]
    /\ UNCHANGED <<original_subtitles, processed_chunks, result,
                   timestamp, ts_origin, total_seconds, call_args, earlier, upload>>

\* total_subtitle_duration = ...; covered_duration = 0
StartCover(c) ==
    /\ pc[c] = "start_cover"
    /\ frames' = [frames EXCEPT
            ![FrameOf(c)].total_subtitle_duration =
                TotalSubtitleDuration(frames[FrameOf(c)].subtitle_timeline),
            ![FrameOf(c)].covered_duration = 0,
            ![FrameOf(c)].chunks_done = 0]
    /\ pc' = [pc EXCEPT ![c] = "cover"]
    /\ UNCHANGED <<original_subtitles, processed_chunks, result,
                   timestamp, ts_origin, total_seconds, call_args, earlier, upload>>

\* one turn of `for chunk in chunk_timeline:`
CoverChunk(c) ==
    /\ pc[c] = "cover"
    /\ frames[FrameOf(c)].chunks_done < Len(frames[FrameOf(c)].chunk_timeline)
    /\ LET frame == frames[FrameOf(c)]
           chunk == frame.chunk_timeline[frame.chunks_done + 1]
       IN  frames' = [frames EXCEPT
               ![FrameOf(c)].subtitle_timeline =
                   [i \in 1..Len(frame.subtitle_timeline) |->
                       [frame.subtitle_timeline[i] EXCEPT !.covered =
                           @ \/ Overlaps(frame.subtitle_timeline[i], chunk)]],
               ![FrameOf(c)].covered_duration =
                   @ + SumOverSubtitles(frame.subtitle_timeline, chunk),
               ![FrameOf(c)].chunks_done = @ + 1]
    /\ pc' = pc
    /\ UNCHANGED <<original_subtitles, processed_chunks, result,
                   timestamp, ts_origin, total_seconds, call_args, earlier, upload>>

\* (covered_duration / total_subtitle_duration) * 100 once the loop is over
FinishCover(c) ==
    /\ pc[c] = "cover"
    /\ frames[FrameOf(c)].chunks_done = Len(frames[FrameOf(c)].chunk_timeline)
    /\ LET frame == frames[FrameOf(c)]
       IN  IF frame.total_subtitle_duration = 0
           THEN /\ frames' = [frames EXCEPT ![FrameOf(c)].exc = "ZeroDivisionError"]
                /\ pc' = [pc EXCEPT ![c] = "raised"]
           ELSE /\ frames' = [frames EXCEPT
                    ![FrameOf(c)].validation_report.timeline_coverage_percentage =
                        TimelineCoverage(frame.covered_duration,
                                         frame.total_subtitle_duration)]
                /\ pc' = [pc EXCEPT ![c] = "text"]
    /\ UNCHANGED <<original_subtitles, processed_chunks, result,
                   timestamp, ts_origin, total_seconds, call_args, earlier, upload>>

\* text_coverage_percentage, assigned only `if original_words:`
CoverText(c) ==
    /\ pc[c] = "text"
    /\ LET frame == frames[FrameOf(c)]
       IN  frames' = [frames EXCEPT
               ![FrameOf(c)].validation_report.text_coverage_percentage =
                   IF CombinedWords(frame.original_subtitles) # {}
                   THEN TextCoverage(frame.original_subtitles,
                                     frame.processed_chunks)
                   ELSE @]
    /\ pc' = [pc EXCEPT ![c] = "missing"]
    /\ UNCHANGED <<original_subtitles, processed_chunks, result,
                   timestamp, ts_origin, total_seconds, call_args, earlier, upload>>

\* validation_report["missing_subtitles"] = missing_subtitles
FindMissing(c) ==
    /\ pc[c] = "missing"
    /\ frames' = [frames EXCEPT
            ![FrameOf(c)].validation_report.missing_subtitles =
                MissingSubtitles(frames[FrameOf(c)].subtitle_timeline)]
    /\ pc' = [pc EXCEPT ![c] = "gaps"]
    /\ UNCHANGED <<original_subtitles, processed_chunks, result,
                   timestamp, ts_origin, total_seconds, call_args, earlier, upload>>

\* validation_report["gaps_in_timeline"] = gaps
FindGaps(c) ==
    /\ pc[c] = "gaps"
    /\ frames' = [frames EXCEPT
            ![FrameOf(c)].validation_report.gaps_in_timeline =
                Gaps(frames[FrameOf(c)].chunk_timeline, 1)]
    /\ pc' = [pc EXCEPT ![c] = "overlaps"]
    /\ UNCHANGED <<original_subtitles, processed_chunks, result,
                   timestamp, ts_origin, total_seconds, call_args, earlier, upload>>

\* validation_report["overlapping_chunks"] = overlaps
FindOverlaps(c) ==
    /\ pc[c] = "overlaps"
    /\ frames' = [frames EXCEPT
            ![FrameOf(c)].validation_report.overlapping_chunks =
                ChunkOverlaps(frames[FrameOf(c)].chunk_timeline, 1)]
    /\ pc' = [pc EXCEPT ![c] = "duplicates"]
    /\ UNCHANGED <<original_subtitles, processed_chunks, result,
                   timestamp, ts_origin, total_seconds, call_args, earlier, upload>>

\* validation_report["duplicate_content"] = duplicates
FindDuplicates(c) ==
    /\ pc[c] = "duplicates"
    /\ frames' = [frames EXCEPT
            ![FrameOf(c)].validation_report.duplicate_content =
                Duplicates(frames[FrameOf(c)].processed_chunks, 1, 2)]
    /\ pc' = [pc EXCEPT ![c] = "messages"]
    /\ UNCHANGED <<original_subtitles, processed_chunks, result,
                   timestamp, ts_origin, total_seconds, call_args, earlier, upload>>

\* step 7: the appends to validation_report["errors"] and ["warnings"]
AddMessages(c) ==
    /\ pc[c] = "messages"
    /\ LET report == frames[FrameOf(c)].validation_report
       IN  frames' = [frames EXCEPT
               ![FrameOf(c)].validation_report.errors =
                   @ \o Errors(report.missing_subtitles,
                               report.text_coverage_percentage,
                               report.timeline_coverage_percentage),
               ![FrameOf(c)].validation_report.warnings =
                   @ \o Warnings(report.gaps_in_timeline,
                                 report.overlapping_chunks,
                                 report.duplicate_content)]
    /\ pc' = [pc EXCEPT ![c] = "verdict"]
    /\ UNCHANGED <<original_subtitles, processed_chunks, result,
                   timestamp, ts_origin, total_seconds, call_args, earlier, upload>>

\* step 8: validation_report["coverage_complete"] = ...
DecideVerdict(c) ==
    /\ pc[c] = "verdict"
    /\ LET report == frames[FrameOf(c)].validation_report
       IN  frames' = [frames EXCEPT
               ![FrameOf(c)].validation_report.coverage_complete =
                   CoverageComplete(report.missing_subtitles,
                                    report.text_coverage_percentage,
                                    report.timeline_coverage_percentage,
                                    report.errors)]
    /\ pc' = [pc EXCEPT ![c] = "render"]
    /\ UNCHANGED <<original_subtitles, processed_chunks, result,
                   timestamp, ts_origin, total_seconds, call_args, earlier, upload>>

\* step 9: validation_report["detailed_report"] = "\n".join(report_lines)
RenderReport(c) ==
    /\ pc[c] = "render"
    /\ LET frame == frames[FrameOf(c)]
       IN  frames' = [frames EXCEPT
               ![FrameOf(c)].validation_report.detailed_report =
                   DetailedReport(frame.validation_report,
                                  Len(frame.original_subtitles),
                                  Len(frame.processed_chunks))]
    /\ pc' = [pc EXCEPT ![c] = "return"]
    /\ UNCHANGED <<original_subtitles, processed_chunks, result,
                   timestamp, ts_origin, total_seconds, call_args, earlier, upload>>

\* what the call of request c hands to its caller
OutcomeOf(c) ==
    IF pc[c] = "raised"
    THEN Raises(frames[FrameOf(c)].exc, frames[FrameOf(c)].parse_calls)
    ELSE Returned(frames[FrameOf(c)].validation_report,
                  frames[FrameOf(c)].parse_calls)

\* `return validation_report`, or the exception leaving the function: the
\* frame is gone, a returned dictionary lives on in the caller's hands
ReturnToCaller(c) ==
    /\ pc[c] \in {"return", "raised"}
    /\ pc' = [pc EXCEPT ![c] = "idle"]
    /\ call_args' = [call_args EXCEPT ![c] = NoArgs]
    /\ frames' = [frames EXCEPT ![FrameOf(c)] =
            IF pc[c] = "return"
            THEN [BlankFrame EXCEPT !.validation_report =
                      frames[FrameOf(c)].validation_report]
            ELSE BlankFrame]
    /\ \/ earlier' = [called |-> TRUE, subs |-> call_args[c].subs,
                      chunks |-> call_args[c].chunks, result |-> OutcomeOf(c)]
       \/ earlier' = earlier
    /\ UNCHANGED <<original_subtitles, processed_chunks, result,
                   timestamp, ts_origin, total_seconds, upload>>

NextCalls ==
    \E c \in Callers :
        \/ Enter(c)
        \/ Guards(c)
        \/ ParseSubtitles(c)
        \/ ParseChunks(c)
        \/ SortTimelines(c)
        \/ StartCover(c)
        \/ CoverChunk(c)
        \/ FinishCover(c)
        \/ CoverText(c)
        \/ FindMissing(c)
        \/ FindGaps(c)
        \/ FindOverlaps(c)
        \/ FindDuplicates(c)
        \/ AddMessages(c)
        \/ DecideVerdict(c)
        \/ RenderReport(c)
        \/ ReturnToCaller(c)

SpecCalls == Init /\ [][NextCalls]_vars

(***************************************************************************)
(* upload_transcript: one request from the file to the response.  calls is *)
(* the list of the collaborators called so far, in call order.             *)
(***************************************************************************)
\* steps 1 and 2: the file checks, then parse_srt
ReceiveUpload ==
    /\ upload.step = "idle"
    /\ \E mode \in ValidationModes, subtitles \in UploadSubtitles,
          readable \in BOOLEAN :
        upload' = IF readable
                  THEN [NoUpload EXCEPT !.step = "llm",
                                        !.mode = mode,
                                        !.subtitles = subtitles,
                                        !.calls = <<"parse_srt">>]
                  ELSE [NoUpload EXCEPT !.step = "done",
                                        !.mode = mode,
                                        !.status_code = 400]
    /\ UNCHANGED <<original_subtitles, processed_chunks, result,
                   timestamp, ts_origin, total_seconds,
                   pc, call_args, frames, earlier>>

\* step 5: process_transcript_with_llm; an answer that is not JSON comes
\* back as {"raw_output": ...}, so that .get("chunks", []) is []
CallLlm ==
    /\ upload.step = "llm"
    /\ \/ \E chunks \in LlmChunkLists :
            upload' = [upload EXCEPT !.step = "embed",
                                     !.llm_output = "json",
                                     !.processed_chunks = chunks,
                                     !.calls = Append(@, "process_transcript_with_llm")]
       \/ upload' = [upload EXCEPT !.step = "embed",
                                   !.llm_output = "not_json",
                                   !.processed_chunks = <<>>,
                                   !.calls = Append(@, "process_transcript_with_llm")]
    /\ UNCHANGED <<original_subtitles, processed_chunks, result,
                   timestamp, ts_origin, total_seconds,
                   pc, call_args, frames, earlier>>

\* step 7: enriched_chunks = embed_and_tag_chunks(processed_chunks)
EmbedChunks ==
    /\ upload.step = "embed"
    /\ upload' = [upload EXCEPT !.step = "validate",
                                !.calls = Append(@, "embed_and_tag_chunks")]
    /\ UNCHANGED <<original_subtitles, processed_chunks, result,
                   timestamp, ts_origin, total_seconds,
                   pc, call_args, frames, earlier>>

\* step 8: validate_chunk_coverage(subtitles, processed_chunks); what it
\* raises leaves the handler as a server error
ValidateUpload ==
    /\ upload.step = "validate"
    /\ \E outcome \in {validate_chunk_coverage(upload.subtitles,
                                               upload.processed_chunks)} :
        upload' = [upload EXCEPT
            !.validation_report = outcome,
            !.calls = Append(@, "validate_chunk_coverage"),
            !.step = IF outcome.outcome = "returned" THEN "mode" ELSE "done",
            !.status_code = IF outcome.outcome = "returned" THEN 0 ELSE 500]
    /\ UNCHANGED <<original_subtitles, processed_chunks, result,
                   timestamp, ts_origin, total_seconds,
                   pc, call_args, frames, earlier>>

\* the VALIDATION_MODE test after the validator: HTTPException(422) or on
CheckValidationMode ==
    /\ upload.step = "mode"
    /\ upload' = IF Rejects(upload.mode, upload.validation_report.report)
                 THEN [upload EXCEPT !.step = "done", !.status_code = 422]
                 ELSE [upload EXCEPT !.step = "store"]
    /\ UNCHANGED <<original_subtitles, processed_chunks, result,
                   timestamp, ts_origin, total_seconds,
                   pc, call_args, frames, earlier>>

\* steps 9 to 11 and store_chunks(qdrant_chunks)
StoreChunks ==
    /\ upload.step = "store"
    /\ upload' = [upload EXCEPT !.step = "respond",
                                !.calls = Append(@, "store_chunks")]
    /\ UNCHANGED <<original_subtitles, processed_chunks, result,
                   timestamp, ts_origin, total_seconds,
                   pc, call_args, frames, earlier>>

\* step 12: UploadTranscriptResponse(status="success", ...)
RespondSuccess ==
    /\ upload.step = "respond"
    /\ upload' = [upload EXCEPT
            !.step = "done",
            !.status_code = 200,
            !.response =
                [status |-> "success",
                 chunks_uploaded |-> Len(upload.processed_chunks),
                 validation |->
                     IF IncludeValidation(upload.mode,
                                          upload.validation_report.report)
                     THEN ValidationInfoOf(upload.mode,
                                           upload.validation_report.report)
                     ELSE NoValidationInfo]]
    /\ UNCHANGED <<original_subtitles, processed_chunks, result,
                   timestamp, ts_origin, total_seconds,
                   pc, call_args, frames, earlier>>

\* the response has left; the next request starts from nothing
UploadDone ==
    /\ upload.step = "done"
    /\ upload' = NoUpload
    /\ UNCHANGED <<original_subtitles, processed_chunks, result,
                   timestamp, ts_origin, total_seconds,
                   pc, call_args, frames, earlier>>

NextUpload ==
    \/ ReceiveUpload
    \/ CallLlm
    \/ EmbedChunks
    \/ ValidateUpload
    \/ CheckValidationMode
    \/ StoreChunks
    \/ RespondSuccess
    \/ UploadDone

SpecUpload == Init /\ [][NextUpload]_vars

(***************************************************************************)
(* Properties of validate_chunk_coverage (checked under Spec)              *)
(***************************************************************************)
Report == result.report

Called == result.outcome # "none"

ReturnedReport == result.outcome = "returned"

\* start and end of a cue or chunk of the call, in milliseconds
StartMs(item) == ParsedStamp(item.start).ms

EndMs(item) == ParsedStamp(item.end).ms

Parseable(items) ==
    \A i \in 1..Len(items) :
        ParsedStamp(items[i].start).ok /\ ParsedStamp(items[i].end).ok

\* end > start for every cue, cues listed in time order, no two intersecting
WellFormedCues(subs) ==
    /\ Parseable(subs)
    /\ \A i \in 1..Len(subs) : EndMs(subs[i]) > StartMs(subs[i])
    /\ \A i \in 1..(Len(subs) - 1) : EndMs(subs[i]) <= StartMs(subs[i + 1])

RECURSIVE ConcatTexts(_, _, _)
ConcatTexts(subs, lo, hi) ==
    IF lo > hi THEN <<>> ELSE subs[lo].text \o ConcatTexts(subs, lo + 1, hi)

\* chunks[j] is built from the run of cues that g sends to j
IsGroupOf(chunk, subs, members) ==
    LET lo == CHOOSE i \in members : \A k \in members : i <= k
        hi == CHOOSE i \in members : \A k \in members : i >= k
    IN  /\ chunk.start = subs[lo].start
        /\ chunk.end = subs[hi].end
        /\ chunk.text = ConcatTexts(subs, lo, hi)

\* each cue in exactly one chunk, the chunks being consecutive runs of cues
ExactPartition(subs, chunks) ==
    /\ Len(subs) > 0
    /\ Len(chunks) > 0
    /\ \E g \in [1..Len(subs) -> 1..Len(chunks)] :
        /\ \A i \in 1..(Len(subs) - 1) : g[i] <= g[i + 1]
        /\ \A j \in 1..Len(chunks) :
            /\ \E i \in 1..Len(subs) : g[i] = j
            /\ IsGroupOf(chunks[j], subs, {i \in 1..Len(subs) : g[i] = j})

FullyCovered ==
    /\ ReturnedReport
    /\ Report.coverage_complete
    /\ Report.missing_subtitles = <<>>
    /\ FracEq(Report.text_coverage_percentage, 100)
    /\ FracEq(Report.timeline_coverage_percentage, 100)

\* C1: whenever the cues are well formed and non-overlapping (contiguous or
\* not) and the chunks are an exact partition of them, the report has
\* coverage_complete = true, no missing subtitles and both coverages at 100.
C1_FullCoverageInvariant ==
    (Called /\ WellFormedCues(original_subtitles)
            /\ ExactPartition(original_subtitles, processed_chunks))
        => FullyCovered

StrictlyUncovered(subs, chunks) ==
    {i \in 1..Len(subs) :
        \A k \in 1..Len(chunks) :
            ~(StartMs(subs[i]) < EndMs(chunks[k])
              /\ EndMs(subs[i]) > StartMs(chunks[k]))}

\* C3: missing_subtitles holds exactly the cues that no chunk strictly
\* overlaps (cue.start < chunk.end and cue.end > chunk.start), each once and
\* flagged not covered; a chunk that only touches a cue does not cover it.
C3_MissingAreTheUncovered ==
    (ReturnedReport /\ Len(original_subtitles) > 0 /\ Len(processed_chunks) > 0)
        => LET missing == Report.missing_subtitles
               uncovered == StrictlyUncovered(original_subtitles, processed_chunks)
           IN  /\ Len(missing) = Cardinality(uncovered)
               /\ \A i \in uncovered :
                    \E j \in 1..Len(missing) : missing[j].index = i - 1
               /\ \A j \in 1..Len(missing) :
                    /\ missing[j].index + 1 \in uncovered
                    /\ ~missing[j].covered
                    /\ missing[j].start = StartMs(original_subtitles[missing[j].index + 1])
                    /\ missing[j].end = EndMs(original_subtitles[missing[j].index + 1])
                    /\ missing[j].text = original_subtitles[missing[j].index + 1].text

\* a cue reported missing although a chunk ends exactly where it starts,
\* next to a cue that a chunk does cover
C3_Witness ==
    /\ ReturnedReport
    /\ Len(original_subtitles) = 2
    /\ Len(Report.missing_subtitles) = 1
    /\ \E k \in 1..Len(processed_chunks) :
           EndMs(processed_chunks[k])
               = StartMs(original_subtitles[Report.missing_subtitles[1].index + 1])

\* C4: with parseable timestamps, a call on non-empty lists never ends with
\* an exception, whatever the durations (zero-length span, end < start).
C4_NeverRaisesOnDomainInput ==
    (Called /\ Len(original_subtitles) > 0 /\ Len(processed_chunks) > 0
            /\ Parseable(original_subtitles) /\ Parseable(processed_chunks))
        => ReturnedReport

\* the report of an early return: nothing found, nothing measured, failed
HardFail(message) ==
    /\ ReturnedReport
    /\ Len(Report.errors) = 1
    /\ Report.errors[1].msg = message
    /\ Report.text_coverage_percentage.num = 0
    /\ Report.timeline_coverage_percentage.num = 0
    /\ ~Report.coverage_complete
    /\ Report.missing_subtitles = <<>>
    /\ Report.gaps_in_timeline = <<>>
    /\ Report.overlapping_chunks = <<>>
    /\ Report.duplicate_content = <<>>
    /\ Report.warnings = <<>>
    /\ result.parse_calls = 0

\* C5: with an empty cue list, whatever the chunk list (empty, non-empty,
\* unparseable timestamps), the call returns the report with the single error
\* "No original subtitles provided", both percentages 0, verdict false and
\* no finding, without one parse_timestamp call and without raising.
C5_EmptyCuesHardFail ==
    (Called /\ Len(original_subtitles) = 0)
        => HardFail("No original subtitles provided")

\* an empty cue list together with a chunk whose timestamp cannot be parsed
C5_Witness ==
    /\ Called
    /\ Len(original_subtitles) = 0
    /\ Len(processed_chunks) > 0
    /\ ~Parseable(processed_chunks)
    /\ ReturnedReport

\* C6: with cues but no chunk, whatever the cues (unparseable timestamps
\* included), the call returns the report with the single error
\* "No processed chunks provided", both percentages 0, verdict false and no
\* finding, without raising.
C6_EmptyChunksHardFail ==
    (Called /\ Len(original_subtitles) > 0 /\ Len(processed_chunks) = 0)
        => HardFail("No processed chunks provided")

\* cues with an unparseable timestamp and no chunk
C6_Witness ==
    /\ Called
    /\ Len(original_subtitles) > 0
    /\ ~Parseable(original_subtitles)
    /\ Len(processed_chunks) = 0
    /\ ReturnedReport

\* the largest end and the smallest start among the cues
MaxCueEnd(subs) ==
    CHOOSE e \in {EndMs(subs[i]) : i \in 1..Len(subs)} :
        \A i \in 1..Len(subs) : EndMs(subs[i]) <= e

MinCueStart(subs) ==
    CHOOSE b \in {StartMs(subs[i]) : i \in 1..Len(subs)} :
        \A i \in 1..Len(subs) : StartMs(subs[i]) >= b

\* covered_duration as the nested loop accumulates it for this call
CoveredOfCall ==
    CoveredDuration(SortByStart(SubtitleTimeline(original_subtitles)),
                    SortByStart(ChunkTimeline(processed_chunks)))

\* C7: for cues of positive overall span, timeline_coverage_percentage is
\* covered_duration / (max cue end - min cue start) * 100, also when the
\* cue that starts last is not the cue that ends last.  (Stated here for
\* cues that each have end > start, the case the claim singles out.)
C7_DenominatorIsFullSpan ==
    (ReturnedReport /\ Len(original_subtitles) > 0 /\ Len(processed_chunks) > 0
        /\ \A i \in 1..Len(original_subtitles) :
               EndMs(original_subtitles[i]) > StartMs(original_subtitles[i])
        /\ MaxCueEnd(original_subtitles) > MinCueStart(original_subtitles))
        => Report.timeline_coverage_percentage.num
               * (MaxCueEnd(original_subtitles) - MinCueStart(original_subtitles))
           = CoveredOfCall * 100 * Report.timeline_coverage_percentage.den

\* C8: subtitle time captured by several chunks counts once, so with
\* well-formed non-overlapping cues the timeline coverage lies in 0..100.
C8_TimelineCoverageWithinBounds ==
    (ReturnedReport /\ Len(processed_chunks) > 0
        /\ WellFormedCues(original_subtitles))
        => /\ Report.timeline_coverage_percentage.num >= 0
           /\ Report.timeline_coverage_percentage.num
                  <= 100 * Report.timeline_coverage_percentage.den

(***************************************************************************)
(* Properties of parse_timestamp (checked under SpecParse)                 *)
(***************************************************************************)
\* whole seconds of the written timestamp, in milliseconds
BaseMs == ts_origin.h * 3600000 + ts_origin.m * 60000 + ts_origin.s * 1000

\* the fraction of a second its digits denote, in microseconds
TrueFractionMicros ==
    IF ts_origin.has_frac /\ ts_origin.frac_len <= 6
    THEN ts_origin.frac_val * Pow10(6 - ts_origin.frac_len)
    ELSE 0

\* C9: for a timestamp made by parse_srt (H:MM:SS or H:MM:SS.ffffff) or any
\* H:MM:SS.f... string, the result is H*3600 + M*60 + S plus the fraction
\* of a second that the digits denote, hence below H*3600 + M*60 + S + 1.
C9_LosslessSourceTimestamps ==
    (ts_origin.form \in {"srt", "hours"} /\ ts_origin.frac_len <= 6)
        => /\ total_seconds.ok
           /\ total_seconds.ms >= BaseMs
           /\ total_seconds.ms < BaseMs + 1000
           /\ (total_seconds.ms - BaseMs) * 1000 = TrueFractionMicros

\* the value of the fractional field read as an integer
FieldValue == IF ts_origin.has_frac THEN ts_origin.frac_val ELSE 0

\* C10: two ':' give hours*3600 + minutes*60 + seconds + field/1000, one
\* ':' gives minutes*60 + seconds + field/1000, none reads the string as a
\* decimal number of seconds; ',' counts as '.', no field contributes 0.
C10_FormatBySeparatorCount ==
    /\ ts_origin.form \in {"srt", "hours"}
        => /\ StrCount(timestamp, ":") = 2
           /\ total_seconds.ok
           /\ total_seconds.ms = ts_origin.h * 3600000 + ts_origin.m * 60000
                                   + ts_origin.s * 1000 + FieldValue
    /\ ts_origin.form = "minutes"
        => /\ StrCount(timestamp, ":") = 1
           /\ total_seconds.ok
           /\ total_seconds.ms = ts_origin.m * 60000 + ts_origin.s * 1000
                                   + FieldValue
    /\ ts_origin.form = "bare"
        => /\ StrCount(timestamp, ":") = 0
           /\ total_seconds.ok
           /\ total_seconds.ms = ts_origin.s * 1000
                                   + FieldValue * Pow10(3 - ts_origin.frac_len)
    /\ (ts_origin.form = "raw" /\ StrCount(timestamp, ":") > 2)
        => ~total_seconds.ok

\* "1:05,500" read in minutes form as 65.5 seconds
C10_Witness ==
    /\ ts_origin.form = "minutes"
    /\ ts_origin.sep = ","
    /\ ts_origin.has_frac
    /\ total_seconds.ok
    /\ total_seconds.ms = 65500

\* the fractional field of the written timestamp
WrittenFrac == [val |-> ts_origin.frac_val, len |-> ts_origin.frac_len]

OtherSeparator == IF ts_origin.sep = "," THEN "." ELSE ","

\* C11: a timestamp H:MM:SS with three fractional digits parses to the same
\* value whether the digits follow ',' or '.', and when H = 0 to the value
\* of the minutes form M:SS.mmm of the same fields.
C11_SeparatorAndFormEquivalence ==
    (ts_origin.form = "hours" /\ ts_origin.has_frac /\ ts_origin.frac_len = 3)
        => /\ total_seconds.ok
           /\ total_seconds
                  = parse_timestamp(HoursStamp(ts_origin.h, ts_origin.m, ts_origin.s,
                                               TRUE, OtherSeparator, WrittenFrac))
           /\ ts_origin.h = 0
                  => total_seconds
                         = parse_timestamp(MinutesStamp(ts_origin.m, ts_origin.s,
                                                        TRUE, ".", WrittenFrac))

\* "0:01:05,500" read as 65.5 seconds
C11_Witness ==
    /\ ts_origin.form = "hours"
    /\ ts_origin.sep = ","
    /\ ts_origin.h = 0
    /\ ts_origin.frac_len = 3
    /\ timestamp = <<"0", ":", "0", "1", ":", "0", "5", ",", "5", "0", "0">>
    /\ total_seconds.ok
    /\ total_seconds.ms = 65500

\* C12: a timestamp holding a non-numeric character makes parse_timestamp
\* fail with TimestampFormatError, a kind of its own, not the generic error
\* of a failed numeric conversion.
C12_DistinctTimestampFormatError ==
    (ts_origin.form = "raw" /\ \E i \in 1..Len(timestamp) : timestamp[i] = "x")
        => /\ ~total_seconds.ok
           /\ total_seconds.exc = "TimestampFormatError"

(***************************************************************************)
(* Errors, warnings and findings of a returned report (checked under Spec) *)
(***************************************************************************)
\* a call on non-empty lists that returned its report
AnalyzedReport ==
    ReturnedReport /\ Len(original_subtitles) > 0 /\ Len(processed_chunks) > 0

\* how many entries of a message list carry the given message
CountOf(messages, msg) ==
    Cardinality({i \in 1..Len(messages) : messages[i].msg = msg})

\* x.y, given as a number of tenths, is the fraction f to one decimal place
ToOneDecimal(tenths, f) == 2 * Abs(10 * f.num - tenths * f.den) <= f.den

\* C13: in the report returned for non-empty lists, errors holds exactly one
\* entry per condition that holds and nothing else: "Missing N subtitles in
\* chunks" (N the number of missing subtitles) when one is missing, "Text
\* coverage is only X%" when the text coverage is below 95, "Timeline
\* coverage is only X%" when the timeline coverage is below 95; a threshold
\* missed shows as an entry of a returned report, not as an exception.
C13_ErrorsAreTheFailedConditions ==
    AnalyzedReport
        => LET errors == Report.errors
               text_pct == Report.text_coverage_percentage
               timeline_pct == Report.timeline_coverage_percentage
           IN  /\ CountOf(errors, "Missing N subtitles in chunks")
                      = (IF Len(Report.missing_subtitles) > 0 THEN 1 ELSE 0)
               /\ CountOf(errors, "Text coverage is only X%")
                      = (IF text_pct.num < 95 * text_pct.den THEN 1 ELSE 0)
               /\ CountOf(errors, "Timeline coverage is only X%")
                      = (IF timeline_pct.num < 95 * timeline_pct.den THEN 1 ELSE 0)
               /\ \A i \in 1..Len(errors) :
                    \/ /\ errors[i].msg = "Missing N subtitles in chunks"
                       /\ errors[i].arg = Len(Report.missing_subtitles)
                    \/ /\ errors[i].msg = "Text coverage is only X%"
                       /\ ToOneDecimal(errors[i].arg, text_pct)
                    \/ /\ errors[i].msg = "Timeline coverage is only X%"
                       /\ ToOneDecimal(errors[i].arg, timeline_pct)

\* a returned report carrying all three errors
C13_Witness ==
    /\ AnalyzedReport
    /\ Len(Report.errors) = 3
    /\ Report.errors[1].arg = Len(Report.missing_subtitles)
    /\ Report.text_coverage_percentage.num
           < 95 * Report.text_coverage_percentage.den
    /\ Report.timeline_coverage_percentage.num
           < 95 * Report.timeline_coverage_percentage.den

AdvisoryMessages ==
    {"Found N timeline gaps", "Found N overlapping chunks",
     "Found N duplicate content sections"}

\* C14: gaps, overlaps and duplicate pairs each put one entry in warnings
\* when there are any ("Found N timeline gaps", "Found N overlapping
\* chunks", "Found N duplicate content sections", N their number), nothing
\* else is in warnings, none of them is in errors, and the verdict is fixed
\* by the missing subtitles and the two percentages alone, however many
\* advisory findings the report carries.
C14_WarningsNeverBlock ==
    AnalyzedReport
        => LET warnings == Report.warnings
               text_pct == Report.text_coverage_percentage
               timeline_pct == Report.timeline_coverage_percentage
           IN  /\ CountOf(warnings, "Found N timeline gaps")
                      = (IF Len(Report.gaps_in_timeline) > 0 THEN 1 ELSE 0)
               /\ CountOf(warnings, "Found N overlapping chunks")
                      = (IF Len(Report.overlapping_chunks) > 0 THEN 1 ELSE 0)
               /\ CountOf(warnings, "Found N duplicate content sections")
                      = (IF Len(Report.duplicate_content) > 0 THEN 1 ELSE 0)
               /\ \A i \in 1..Len(warnings) :
                    \/ /\ warnings[i].msg = "Found N timeline gaps"
                       /\ warnings[i].arg = Len(Report.gaps_in_timeline)
                    \/ /\ warnings[i].msg = "Found N overlapping chunks"
                       /\ warnings[i].arg = Len(Report.overlapping_chunks)
                    \/ /\ warnings[i].msg = "Found N duplicate content sections"
                       /\ warnings[i].arg = Len(Report.duplicate_content)
               /\ \A i \in 1..Len(Report.errors) :
                    Report.errors[i].msg \notin AdvisoryMessages
               /\ Report.coverage_complete
                    <=> /\ Len(Report.missing_subtitles) = 0
                        /\ text_pct.num >= 95 * text_pct.den
                        /\ timeline_pct.num >= 95 * timeline_pct.den

\* a report that passes although it carries two warnings, one for an
\* overlap and one for a duplicate pair
C14_Witness ==
    /\ AnalyzedReport
    /\ Report.coverage_complete
    /\ Len(Report.warnings) = 2
    /\ Len(Report.overlapping_chunks) > 0
    /\ Len(Report.duplicate_content) > 0
    /\ Report.errors = <<>>

\* the chunks of the call, in the order the code walks them
SortedChunksOfCall == SortByStart(ChunkTimeline(processed_chunks))

\* positions i of the sorted chunks with more than a second between the end
\* of chunk i and the start of chunk i + 1
GapPairs(sorted) ==
    {i \in 1..(Len(sorted) - 1) : sorted[i + 1].start - sorted[i].end > 1000}

\* C15: with the chunks sorted by start, gaps_in_timeline has one record for
\* exactly the adjacent pairs (current, next) with next.start - current.end
\* above one second (exactly one second is no gap), with gap_start =
\* current.end, gap_end = next.start and duration = gap_end - gap_start.
C15_GapsAreTheWideAdjacentPairs ==
    AnalyzedReport
        => LET sorted == SortedChunksOfCall
               gaps == Report.gaps_in_timeline
           IN  /\ Len(gaps) = Cardinality(GapPairs(sorted))
               /\ \A i \in GapPairs(sorted) :
                    \E k \in 1..Len(gaps) :
                        /\ gaps[k].after_chunk = i - 1
                        /\ gaps[k].gap_start = sorted[i].end
                        /\ gaps[k].gap_end = sorted[i + 1].start
                        /\ gaps[k].duration = gaps[k].gap_end - gaps[k].gap_start

\* chunks [0,10] and [15,30]: exactly one gap, of 5 seconds
C15_Witness ==
    /\ AnalyzedReport
    /\ Len(processed_chunks) = 2
    /\ StartMs(processed_chunks[1]) = 0
    /\ EndMs(processed_chunks[1]) = 10000
    /\ StartMs(processed_chunks[2]) = 15000
    /\ EndMs(processed_chunks[2]) = 30000
    /\ Len(Report.gaps_in_timeline) = 1
    /\ Report.gaps_in_timeline[1].duration = 5000

\* positions i of the sorted chunks where chunk i + 1 starts before chunk i
\* ends
OverlapPairs(sorted) ==
    {i \in 1..(Len(sorted) - 1) : sorted[i + 1].start < sorted[i].end}

ChunkWords(i) == WordSet(processed_chunks[i].text)

\* the pairs i < j of chunks with non-empty word sets sharing more than half
\* of the words of their union
SimilarPairs ==
    {p \in (1..Len(processed_chunks)) \X (1..Len(processed_chunks)) :
        /\ p[1] < p[2]
        /\ ChunkWords(p[1]) # {}
        /\ ChunkWords(p[2]) # {}
        /\ 2 * Cardinality(ChunkWords(p[1]) \cap ChunkWords(p[2]))
               > Cardinality(ChunkWords(p[1]) \cup ChunkWords(p[2]))}

\* the record of duplicate_content for the pair (i, j), 1-based
FlaggedAs(i, j, ratio_num, ratio_den) ==
    \E k \in 1..Len(Report.duplicate_content) :
        /\ Report.duplicate_content[k].chunk1 = i - 1
        /\ Report.duplicate_content[k].chunk2 = j - 1
        /\ Report.duplicate_content[k].overlap_ratio.num * ratio_den
               = Report.duplicate_content[k].overlap_ratio.den * ratio_num

Flagged(i, j) ==
    \E k \in 1..Len(Report.duplicate_content) :
        /\ Report.duplicate_content[k].chunk1 = i - 1
        /\ Report.duplicate_content[k].chunk2 = j - 1

CueTokens == CombinedWords(original_subtitles)

ChunkTokens == CombinedWords(processed_chunks)

\* the cues span a non-zero time from the first start to the end of the cue
\* that starts last
NonZeroSpan ==
    TotalSubtitleDuration(SortByStart(SubtitleTimeline(original_subtitles))) # 0

\* C18: text_coverage_percentage is |chunk_tokens n cue_tokens| /
\* |cue_tokens| * 100 over the lowercased word sets, hence 100 whenever the
\* chunk vocabulary contains the cue vocabulary; with no cue word at all it
\* is 0, the call does not fail on a division, and the report carries the
\* text-coverage error and the verdict false.
C18_TextCoverageIsSharedShareOfCueWords ==
    /\ AnalyzedReport
        => LET text_pct == Report.text_coverage_percentage
           IN  /\ CueTokens # {}
                    => text_pct.num * Cardinality(CueTokens)
                           = Cardinality(ChunkTokens \cap CueTokens) * 100
                                 * text_pct.den
               /\ (CueTokens # {} /\ CueTokens \subseteq ChunkTokens)
                    => text_pct = [num |-> 100, den |-> 1]
               /\ CueTokens = {}
                    => /\ text_pct = [num |-> 0, den |-> 1]
                       /\ CountOf(Report.errors, "Text coverage is only X%") = 1
                       /\ ~Report.coverage_complete
    /\ (Called /\ Len(original_subtitles) > 0 /\ Len(processed_chunks) > 0
            /\ CueTokens = {}
            /\ Parseable(original_subtitles) /\ Parseable(processed_chunks)
            /\ NonZeroSpan)
        => ReturnedReport

\* cues without a single word: text coverage 0, reported as an error
C18_Witness ==
    /\ AnalyzedReport
    /\ CueTokens = {}
    /\ ChunkTokens # {}
    /\ Report.text_coverage_percentage = [num |-> 0, den |-> 1]
    /\ ~Report.coverage_complete

(***************************************************************************)
(* Properties of repeated and interleaved calls (checked under SpecCalls)  *)
(***************************************************************************)
\* the call of request c has come to its end and not yet been taken back
Finished(c) == pc[c] \in {"return", "raised"}

\* C19: a call with the same cue and chunk lists as a call that returned
\* before it, whatever other calls ran in between or run beside it, ends
\* the same way with the same report, field for field (verdict,
\* percentages, errors, warnings, finding lists, rendered lines); so do two
\* calls with the same lists running side by side.
C19_SameInputsSameReport ==
    \A c \in Callers :
        Finished(c)
            => /\ (earlier.called /\ earlier.subs = call_args[c].subs
                       /\ earlier.chunks = call_args[c].chunks)
                    => OutcomeOf(c) = earlier.result
               /\ \A d \in Callers :
                    (Finished(d) /\ call_args[d] = call_args[c])
                        => OutcomeOf(d) = OutcomeOf(c)

\* a call that failed on three counts repeated after it returned, while
\* the other request is inside a call on other lists
C19_Witness ==
    \E c \in Callers, d \in Callers :
        /\ pc[c] = "return"
        /\ earlier.called
        /\ earlier.subs = call_args[c].subs
        /\ earlier.chunks = call_args[c].chunks
        /\ Len(earlier.result.report.errors) = 3
        /\ OutcomeOf(c) = earlier.result
        /\ pc[d] \notin {"idle", "guards"}
        /\ call_args[d] # call_args[c]

\* C20: with calls interleaved statement by statement and no lock, each
\* call ends exactly as validate_chunk_coverage ends when run alone on the
\* lists that call was given.
C20_InterleavedCallsEndAsAlone ==
    \A c \in Callers :
        Finished(c)
            => OutcomeOf(c)
                   = validate_chunk_coverage(call_args[c].subs, call_args[c].chunks)

\* one call returned its report with errors while the other, on other
\* lists, is between two turns of its coverage loop
C20_Witness ==
    \E c \in Callers, d \in Callers :
        /\ pc[c] = "return"
        /\ Len(frames[c].validation_report.errors) = 3
        /\ pc[d] = "cover"
        /\ frames[d].chunks_done = 1
        /\ Len(frames[d].chunk_timeline) = 2
        /\ call_args[d] # call_args[c]

(***************************************************************************)
(* Properties of upload_transcript (checked under SpecUpload)              *)
(***************************************************************************)
\* the validator has handed its report to the request being served
Validated == upload.validation_report.outcome = "returned"

UploadReport == upload.validation_report.report

\* positions in calls at which the collaborator was called
CallsOf(name) == {i \in 1..Len(upload.calls) : upload.calls[i] = name}

\* C21: in strict mode a report with a non-empty errors list (the same
\* reports as those with coverage_complete false) ends the request with
\* status 422 and store_chunks is not called for it; a report without
\* errors, warnings or not, is never answered with 422.
C21_StrictRejectsOnErrorsOnly ==
    (upload.mode = "strict" /\ Validated)
        => /\ Len(UploadReport.errors) > 0 <=> ~UploadReport.coverage_complete
           /\ Len(UploadReport.errors) > 0
                => /\ CallsOf("store_chunks") = {}
                   /\ upload.step \in {"mode", "done"}
                   /\ upload.step = "done" => upload.status_code = 422
           /\ Len(UploadReport.errors) = 0
                => /\ upload.status_code # 422
                   /\ upload.step = "done" => upload.status_code = 200

\* a strict upload turned down with 422, nothing stored
C21_Witness ==
    /\ upload.mode = "strict"
    /\ Validated
    /\ upload.step = "done"
    /\ upload.status_code = 422
    /\ Len(UploadReport.errors) > 0
    /\ CallsOf("store_chunks") = {}
    /\ CallsOf("validate_chunk_coverage") # {}

\* C22: in warn mode, once the validator has returned a report the request
\* is never turned down: it calls store_chunks and answers 200 "success",
\* and a failed report's errors and warnings are in the response; so it is
\* when the LLM's answer is not JSON or has no chunk, the report for a
\* file with cues then being the "No processed chunks provided" one.
C22_WarnModeAlwaysStores ==
    (upload.mode = "warn" /\ Validated)
        => /\ upload.status_code \in {0, 200}
           /\ upload.step \in {"mode", "store", "respond", "done"}
           /\ upload.step \in {"respond", "done"} => CallsOf("store_chunks") # {}
           /\ upload.step = "done"
                => /\ upload.status_code = 200
                   /\ upload.response.status = "success"
                   /\ ~UploadReport.coverage_complete
                        => /\ upload.response.validation.present
                           /\ upload.response.validation.errors = UploadReport.errors
                           /\ upload.response.validation.warnings
                                  = UploadReport.warnings
           /\ (upload.processed_chunks = <<>> /\ upload.subtitles # <<>>)
                => /\ Len(UploadReport.errors) = 1
                   /\ UploadReport.errors[1].msg = "No processed chunks provided"

\* the LLM's answer was not JSON: answered 200 with the failed report
C22_Witness ==
    /\ upload.mode = "warn"
    /\ upload.llm_output = "not_json"
    /\ upload.subtitles # <<>>
    /\ Validated
    /\ upload.step = "done"
    /\ upload.status_code = 200
    /\ CallsOf("store_chunks") # {}
    /\ upload.response.validation.present
    /\ Len(upload.response.validation.errors) = 1
    /\ upload.response.validation.errors[1].msg = "No processed chunks provided"

\* C23: in every upload the validator is called once, after
\* process_transcript_with_llm has returned and before embed_and_tag_chunks
\* and store_chunks are called.
C23_ValidatorBeforeEmbeddingAndStorage ==
    /\ Cardinality(CallsOf("validate_chunk_coverage")) <= 1
    /\ upload.status_code \in {200, 422}
        => Cardinality(CallsOf("validate_chunk_coverage")) = 1
    /\ \A v \in CallsOf("validate_chunk_coverage") :
        \E l \in CallsOf("process_transcript_with_llm") : l < v
    /\ \A e \in CallsOf("embed_and_tag_chunks") \cup CallsOf("store_chunks") :
        \E v \in CallsOf("validate_chunk_coverage") : v < e

(***************************************************************************)
(* Properties of the adjacent-pair scans (checked under SpecTimeline)      *)
(***************************************************************************)
\* C24: no chunk of the call has time in common with the open interval
\* (gap_start, gap_end) of a record of gaps_in_timeline, also when an
\* earlier, longer chunk extends past later chunks.
C24_ReportedGapsAreUncovered ==
    AnalyzedReport
        => \A k \in 1..Len(Report.gaps_in_timeline) :
            \A i \in 1..Len(processed_chunks) :
                ~ /\ StartMs(processed_chunks[i]) < Report.gaps_in_timeline[k].gap_end
                  /\ EndMs(processed_chunks[i]) > Report.gaps_in_timeline[k].gap_start

\* C25: a record of overlapping_chunks spans time both of its chunks cover:
\* [overlap_start, overlap_end] lies inside both chunks and overlap_duration
\* is min(current.end, next.end) - max(current.start, next.start), also
\* when the later-starting chunk ends before the earlier one.
C25_OverlapIsCommonTime ==
    AnalyzedReport
        => \A k \in 1..Len(Report.overlapping_chunks) :
            LET o == Report.overlapping_chunks[k]
                current == SortedChunksOfCall[o.chunk1 + 1]
                next == SortedChunksOfCall[o.chunk2 + 1]
            IN  /\ o.overlap_start >= Max2(current.start, next.start)
                /\ o.overlap_end <= Min2(current.end, next.end)
                /\ o.overlap_duration
                       = Min2(current.end, next.end) - Max2(current.start, next.start)

\* C26: the indices of a gap record and of an overlap record are positions
\* in the list the caller passed, as those of duplicate_content are: the
\* chunk at after_chunk (chunk1) is the one that ends at gap_start
\* (overlap_end), the chunk at before_chunk (chunk2) the one that starts at
\* gap_end (overlap_start), whatever the order of the list.
C26_RecordIndicesAreCallerPositions ==
    AnalyzedReport
        => /\ \A k \in 1..Len(Report.gaps_in_timeline) :
                LET g == Report.gaps_in_timeline[k]
                IN  /\ EndMs(processed_chunks[g.after_chunk + 1]) = g.gap_start
                    /\ StartMs(processed_chunks[g.before_chunk + 1]) = g.gap_end
           /\ \A k \in 1..Len(Report.overlapping_chunks) :
                LET o == Report.overlapping_chunks[k]
                IN  /\ EndMs(processed_chunks[o.chunk1 + 1]) = o.overlap_end
                    /\ StartMs(processed_chunks[o.chunk2 + 1]) = o.overlap_start

\* C27: for n >= 1 chunks the two scans look at the n - 1 adjacent pairs of
\* the sorted chunks and at nothing else, no index leaves the list, no pair
\* gives both a gap and an overlap, so len(gaps) + len(overlaps) <= n - 1;
\* with one chunk both lists are empty.
C27_AdjacentPairsBoundTheRecords ==
    (Called /\ Len(original_subtitles) > 0 /\ Len(processed_chunks) >= 1
            /\ Parseable(original_subtitles) /\ Parseable(processed_chunks)
            /\ NonZeroSpan)
        => /\ ReturnedReport
           /\ LET n == Len(processed_chunks)
                  gaps == Report.gaps_in_timeline
                  overlaps == Report.overlapping_chunks
              IN  /\ Len(gaps) = Cardinality(GapPairs(SortedChunksOfCall))
                  /\ Len(overlaps) = Cardinality(OverlapPairs(SortedChunksOfCall))
                  /\ Len(gaps) + Len(overlaps) <= n - 1
                  /\ \A k \in 1..Len(gaps) :
                        /\ gaps[k].after_chunk \in 0..(n - 2)
                        /\ gaps[k].before_chunk = gaps[k].after_chunk + 1
                  /\ \A k \in 1..Len(overlaps) :
                        /\ overlaps[k].chunk1 \in 0..(n - 2)
                        /\ overlaps[k].chunk2 = overlaps[k].chunk1 + 1
                  /\ \A k \in 1..Len(gaps), l \in 1..Len(overlaps) :
                        gaps[k].after_chunk # overlaps[l].chunk1
                  /\ n = 1 => (gaps = <<>> /\ overlaps = <<>>)

\* three chunks, one pair overlapping and the other apart: n - 1 records
C27_Witness ==
    /\ AnalyzedReport
    /\ Len(processed_chunks) = 3
    /\ Len(Report.gaps_in_timeline) = 1
    /\ Len(Report.overlapping_chunks) = 1

(***************************************************************************)
(* Order of the input lists (checked under Spec)                           *)
(***************************************************************************)
\* the list s in every order
Reorderings(s) ==
    {[i \in 1..Len(s) |-> s[p[i]]] : p \in Permutations(1..Len(s))}

\* the missing subtitles of a report, without their order
MissingSet(r) ==
    {<<r.missing_subtitles[i].start, r.missing_subtitles[i].end,
       r.missing_subtitles[i].text>> : i \in 1..Len(r.missing_subtitles)}

SameVerdict(r1, r2) ==
    /\ r1.coverage_complete = r2.coverage_complete
    /\ r1.text_coverage_percentage = r2.text_coverage_percentage
    /\ r1.timeline_coverage_percentage = r2.timeline_coverage_percentage
    /\ MissingSet(r1) = MissingSet(r2)
    /\ r1.errors = r2.errors
    /\ Len(r1.duplicate_content) = Len(r2.duplicate_content)

\* C28: the report of a call and the report for the same cues and the same
\* chunks passed in any other order have the same coverage_complete, the
\* same two percentages, the same set of missing subtitles, the same errors
\* and as many duplicate pairs.
C28_VerdictIgnoresListOrder ==
    ReturnedReport
        => \A subs \in Reorderings(original_subtitles),
              chunks \in Reorderings(processed_chunks) :
                LET other == validate_chunk_coverage(subs, chunks)
                IN  other.outcome = "returned" => SameVerdict(Report, other.report)

(***************************************************************************)
(* The caller's lists (checked under SpecCalls)                            *)
(***************************************************************************)
\* C29: from its first statement to its return a call leaves the two lists
\* it was given as they were passed: same elements, same order, each
\* element with its start, end and text and nothing else; the sorted order
\* and the covered flags are on subtitle_timeline and chunk_timeline, the
\* lists the call builds.
C29_InputsLeftAsPassed ==
    \A c \in Callers :
        pc[c] # "idle"
            => LET frame == frames[FrameOf(c)]
               IN  /\ frame.original_subtitles = call_args[c].subs
                   /\ frame.processed_chunks = call_args[c].chunks
                   /\ \A i \in 1..Len(frame.original_subtitles) :
                        DOMAIN frame.original_subtitles[i] = {"start", "end", "text"}
                   /\ \A i \in 1..Len(frame.processed_chunks) :
                        DOMAIN frame.processed_chunks[i] = {"start", "end", "text"}

\* a call given its cues last cue first is about to return: its own list is
\* sorted and flagged, the caller's list still begins with the later cue
C29_Witness ==
    \E c \in Callers :
        /\ pc[c] = "return"
        /\ Len(call_args[c].subs) = 2
        /\ StartMs(call_args[c].subs[1]) > StartMs(call_args[c].subs[2])
        /\ frames[FrameOf(c)].original_subtitles = call_args[c].subs
        /\ Len(frames[FrameOf(c)].subtitle_timeline) = 2
        /\ frames[FrameOf(c)].subtitle_timeline[1].start
               < frames[FrameOf(c)].subtitle_timeline[2].start
        /\ frames[FrameOf(c)].subtitle_timeline[1].covered

(***************************************************************************)
(* The rendered report (checked under SpecTranscript)                      *)
(***************************************************************************)
\* the lines of detailed_report of the given kind, in order
LinesOf(kind) ==
    LET OfKind(l) == l.line = kind
    IN  SelectSeq(Report.detailed_report, OfKind)

\* start times of the cues of the call that no chunk of the call overlaps
UncoveredStarts ==
    {StartMs(original_subtitles[i]) : i \in
        {j \in 1..Len(original_subtitles) :
            \A k \in 1..Len(processed_chunks) :
                ~ /\ StartMs(original_subtitles[j]) < EndMs(processed_chunks[k])
                  /\ EndMs(original_subtitles[j]) > StartMs(processed_chunks[k])}}

\* C30: with m missing subtitles detailed_report has min(5, m) lines for
\* them, those of the first five in start order, and one "... and N more"
\* line, N = m - 5, exactly when m > 5; it has one line for every gap,
\* every overlap and every duplicate record, in the records' order; its
\* banner reads PASSED exactly when coverage_complete is true.
C30_ReportListsFirstFiveMissing ==
    AnalyzedReport
        => LET m == Cardinality(UncoveredStarts)
               shown == LinesOf("missing")
               more == LinesOf("... and N more")
               gaps == Report.gaps_in_timeline
               overlaps == Report.overlapping_chunks
               duplicates == Report.duplicate_content
           IN  /\ Len(Report.missing_subtitles) = m
               /\ Len(shown) = Min2(5, m)
               /\ \A i \in 1..Len(shown) :
                    /\ shown[i].args[1] \in UncoveredStarts
                    /\ Cardinality({s \in UncoveredStarts : s < shown[i].args[1]})
                           = i - 1
                    /\ shown[i].args[2] = Report.missing_subtitles[i].end
                    /\ shown[i].text = Report.missing_subtitles[i].text
               /\ Len(more) = (IF m > 5 THEN 1 ELSE 0)
               /\ m > 5 => more[1].args = <<m - 5>>
               /\ Len(LinesOf("MISSING SUBTITLES")) = (IF m > 0 THEN 1 ELSE 0)
               /\ Len(LinesOf("Gap")) = Len(gaps)
               /\ \A k \in 1..Len(gaps) :
                    LinesOf("Gap")[k].args
                        = <<gaps[k].gap_start, gaps[k].gap_end, gaps[k].duration>>
               /\ Len(LinesOf("Chunks overlap")) = Len(overlaps)
               /\ \A k \in 1..Len(overlaps) :
                    LinesOf("Chunks overlap")[k].args
                        = <<overlaps[k].chunk1, overlaps[k].chunk2,
                            overlaps[k].overlap_duration>>
               /\ Len(LinesOf("Chunks similarity")) = Len(duplicates)
               /\ \A k \in 1..Len(duplicates) :
                    /\ LinesOf("Chunks similarity")[k].args[1] = duplicates[k].chunk1
                    /\ LinesOf("Chunks similarity")[k].args[2] = duplicates[k].chunk2
               /\ Len(LinesOf("VALIDATION PASSED"))
                      = (IF Report.coverage_complete THEN 1 ELSE 0)
               /\ Len(LinesOf("VALIDATION FAILED"))
                      = (IF Report.coverage_complete THEN 0 ELSE 1)

\* seven cues passed last cue first, none covered: five lines for the cues
\* that start at 0 s to 4 s, then "... and 2 more"
C30_Witness ==
    /\ AnalyzedReport
    /\ Len(original_subtitles) = 7
    /\ StartMs(original_subtitles[1]) = 6000
    /\ Len(Report.missing_subtitles) = 7
    /\ Len(LinesOf("missing")) = 5
    /\ LinesOf("missing")[1].args[1] = 0
    /\ LinesOf("missing")[5].args[1] = 4000
    /\ LinesOf("... and N more") = <<Line("... and N more", <<2>>, <<>>)>>
    /\ Len(LinesOf("VALIDATION FAILED")) = 1

====
